---- MODULE Spec2Model ----
(***************************************************************************)
(* A model of gnsq, a gevent client library for NSQ.                       *)
(*                                                                         *)
(* The module holds ten state machines over disjoint groups of variables:  *)
(*   SpecMessage      gnsq/message.py      one Message and its responses   *)
(*   SpecNsqd         gnsq/nsqd.py         one NsqdTCPClient session       *)
(*   SpecNsqdCounts   gnsq/nsqd.py         its RDY / in-flight counters    *)
(*   SpecIdentify     gnsq/nsqd.py         one call of identify()          *)
(*   SpecProducer     gnsq/producer.py     the Producer and its sessions   *)
(*   Spec             gnsq/consumer.py     the Consumer and its sessions   *)
(*   SpecDispatch     gnsq/consumer.py     the handling of one message     *)
(*   SpecBackoffTimer gnsq/backofftimer.py one BackoffTimer                *)
(*   SpecSession      gnsq/consumer.py     the sessions of one address     *)
(*   SpecReadyState   gnsq/consumer.py     the computation of RDY targets  *)
(* Each specification starts every group in its constructed state and      *)
(* moves only its own group.                                               *)
(*                                                                         *)
(* gevent schedules greenlets cooperatively: a greenlet runs until it      *)
(* blocks (a socket send or read, a queue get, a sleep).  One action of    *)
(* the model is one such run between two blocking points.                  *)
(***************************************************************************)
EXTENDS Integers, Sequences, FiniteSets, TLC

VARIABLES
    \* ---- gnsq/message.py: one Message
    msg_has_responded,  \* Message._has_responded
    msg_signals,        \* number of on_finish / on_requeue / on_touch emissions
    msg_returned,       \* number of finish / requeue / touch calls that returned normally
    msg_calls,          \* number of calls made so far
    msg_last,           \* the last call: what it was, the flag and the emission counts
                        \* it found, how it ended
    \* ---- gnsq/nsqd.py: one NsqdTCPClient
    nsqd_state,         \* NsqdTCPClient.state
    nsqd_pc,            \* "idle", or "magic" while connect() waits for the magic to be sent
    nsqd_sent,          \* the commands written to the stream, in order
    nsqd_in_flight,     \* NsqdTCPClient.in_flight
    nsqd_ready_count,   \* NsqdTCPClient.ready_count
    nsqd_last,          \* the last call: what it was, what it saw, what it emitted
    \* ---- gnsq/producer.py: one Producer; a session is <<address, n>>, the n-th
    \*      NsqdTCPClient the producer built for the address
    prod_state,         \* Producer._state
    prod_pending,       \* per address: connect_to_nsqd calls waiting to run (start's
                        \* loop, gevent.spawn_later)
    prod_gen,           \* per address: how many NsqdTCPClient objects were built
    prod_cstate,        \* per address: NsqdTCPClient.state of the latest object
    prod_phase,         \* per address: where the latest object is in its life
    prod_pool,          \* Producer._connections, a FIFO queue of sessions
    prod_hasq,          \* the keys of Producer._response_queues (sessions compare
                        \* and hash by address)
    prod_queues,        \* per key: the deque of pending promises
    prod_status,        \* per promise: unused, pending, or how it was resolved
    prod_owner,         \* per promise: the session it was appended for
    prod_resolved,      \* the promises in the order they were resolved
    prod_wire,          \* per address: commands written and not yet answered
    prod_pub,           \* per publisher: idle, or blocked in send() on a session
    prod_last,          \* what the last step handled: an ERROR frame, the failure
                        \* of a session, or neither
    \* ---- gnsq/consumer.py: one Consumer; a session is the NsqdTCPClient stored
    \*      under an address in Consumer._connections
    cons_state,         \* Consumer._state
    max_in_flight,      \* Consumer.max_in_flight
    max_backoff_duration, \* Consumer.max_backoff_duration
    on_close_sent,      \* emissions of Consumer.on_close
    connections,        \* Consumer._connections: per address the supervisor state
                        \* of its session, ABSENT without one
    conn_phase,         \* per session: where connect_to_nsqd / _listen stands
    conn_caller,        \* per session: who is blocked in its connect_to_nsqd
    conn_state,         \* per session: NsqdTCPClient.state
    ready_count,        \* per session: NsqdTCPClient.ready_count
    in_flight,          \* per session: NsqdTCPClient.in_flight
    broker_rdy,         \* per session: the RDY its broker last received
    message_backoffs,   \* Consumer._message_backoffs: BackoffTimer.c per address
    throttle_timers,    \* per address: pending spawn_later(_start_throttled)
    reconnect_timers,   \* per address: pending spawn_later(connect_to_nsqd)
    start_pc,           \* where start() stands
    start_todo,         \* the addresses start() has still to connect to
    lookupd_pc,         \* the _poll_lookupd greenlet
    rd_pc,              \* the _poll_ready greenlet
    rd_event,           \* Consumer._redistributed_ready_event
    rd_cur,             \* the session whose ready() the redistribution is blocked in
    rd_todo,            \* the sessions of ready_state it has still to visit
    rd_target,          \* ready_state, for the sessions still to visit
    conns_built,        \* the sessions connect_to_nsqd has put into the map so far
    msgs_delivered,     \* the messages the brokers have sent so far
    cons_last,          \* what the last step completed: a redistribution, the
                        \* handling of a session failure, or neither
    \* ---- gnsq/consumer.py: Consumer.handle_message for one message of one
    \*      session
    hm_running,         \* Consumer.is_running
    hm_max_tries,       \* Consumer.max_tries
    hm_attempts,        \* Message.attempts
    hm_backoff_on_requeue, \* Consumer.backoff_on_requeue
    hm_requeue_delay,   \* Consumer.requeue_delay
    hm_pc,              \* received, in the handler, returned to the reader, or
                        \* raised into the reader
    hm_async,           \* Message._is_async
    hm_responded,       \* Message._has_responded
    hm_wire,            \* the FIN / REQ commands written for the message, in order
    hm_sup,             \* the finish / requeue calls the consumer itself made
    hm_emitted,         \* emissions of on_giving_up, on_exception, on_message
    hm_end,             \* how the handler ended and what it left
    \* ---- gnsq/backofftimer.py: one BackoffTimer
    bt_c,               \* BackoffTimer.c
    bt_calls,           \* the failure / success / reset calls made so far, in order
    \* ---- gnsq/consumer.py: the sessions of one configured address under a
    \*      consumer that has been started, with both backoff timers of the address
    ss_running,         \* Consumer.is_running
    ss_conn,            \* Consumer._connections[conn], ABSENT without the key
    ss_phase,           \* where connect_to_nsqd / _listen stands for the session
    ss_connection_backoff, \* Consumer._connection_backoffs[conn].c
    ss_message_backoff, \* Consumer._message_backoffs[conn].c
    ss_reconnects,      \* pending spawn_later(connect_to_nsqd)
    ss_throttles,       \* pending spawn_later(_start_throttled): for each, the
                        \* number of the backoff episode that set it
    ss_episode,         \* how many times _start_backoff ran for the address
    ss_last,            \* what the last step was and what it found
    \* ---- gnsq/consumer.py: one computation of the RDY targets
    rs_connections,     \* Consumer._connections: per key the supervisor state
    rs_max_in_flight,   \* Consumer.max_in_flight
    rs_max_ready_count, \* per key NsqdTCPClient.max_ready_count after identify()
    rs_late,            \* the keys whose last_message is older than
                        \* low_ready_idle_timeout
    rs_regime,          \* which of the two computations ran, "none" before
    rs_ready_state,     \* the ready_state it returned
    \* ---- gnsq/nsqd.py: one call of NsqdTCPClient.identify()
    id_cfg,             \* the session's options: tls_v1, snappy, deflate, auth_secret
    id_data,            \* the frame read in answer to IDENTIFY
    id_pc,              \* where the call stands
    id_log,             \* what the call did so far, in order
    id_layers,          \* the layers installed on the stream, innermost first
    id_closed           \* close_stream() was called

msgVars  == <<msg_has_responded, msg_signals, msg_returned, msg_calls, msg_last>>
nsqdVars == <<nsqd_state, nsqd_pc, nsqd_sent, nsqd_in_flight, nsqd_ready_count,
              nsqd_last>>
prodVars == <<prod_state, prod_pending, prod_gen, prod_cstate, prod_phase, prod_pool,
              prod_hasq, prod_queues, prod_status, prod_owner, prod_resolved,
              prod_wire, prod_pub, prod_last>>
consVars == <<cons_state, max_in_flight, max_backoff_duration, on_close_sent,
              connections, conn_phase, conn_caller, conn_state,
              ready_count, in_flight, broker_rdy, message_backoffs, throttle_timers,
              reconnect_timers, start_pc, start_todo, lookupd_pc, rd_pc,
              rd_event, rd_cur, rd_todo, rd_target, conns_built, msgs_delivered, cons_last>>
dispVars == <<hm_running, hm_max_tries, hm_attempts, hm_backoff_on_requeue,
              hm_requeue_delay, hm_pc, hm_async, hm_responded, hm_wire, hm_sup,
              hm_emitted, hm_end>>
\* What the consumer's constructor sets for good, and the count only close()
\* changes.
consFixed == <<max_in_flight, max_backoff_duration, on_close_sent>>
\* The consumer itself, without the record of the last step.
consState == <<cons_state, consFixed, connections, conn_phase, conn_caller, conn_state,
               ready_count, in_flight, broker_rdy, message_backoffs, throttle_timers,
               reconnect_timers, start_pc, start_todo, lookupd_pc, rd_pc, rd_event,
               rd_cur, rd_todo, rd_target, conns_built, msgs_delivered>>
timerVars == <<bt_c, bt_calls>>
sessVars == <<ss_running, ss_conn, ss_phase, ss_connection_backoff, ss_message_backoff,
              ss_reconnects, ss_throttles, ss_episode, ss_last>>
readyVars == <<rs_connections, rs_max_in_flight, rs_max_ready_count, rs_late, rs_regime,
              rs_ready_state>>
identVars == <<id_cfg, id_data, id_pc, id_log, id_layers, id_closed>>
sessOthers == <<msgVars, nsqdVars, prodVars, consVars, dispVars, timerVars, readyVars, identVars>>
readyOthers == <<msgVars, nsqdVars, prodVars, consVars, dispVars, timerVars, sessVars, identVars>>
identOthers == <<msgVars, nsqdVars, prodVars, consVars, dispVars, timerVars, sessVars, readyVars>>
vars     == <<msgVars, nsqdVars, prodVars, consVars, dispVars, timerVars, sessVars, readyVars, identVars>>

\* What each state machine leaves alone.
msgOthers  == <<nsqdVars, prodVars, consVars, dispVars, timerVars, sessVars, readyVars, identVars>>
nsqdOthers == <<msgVars, prodVars, consVars, dispVars, timerVars, sessVars, readyVars, identVars>>
prodOthers == <<msgVars, nsqdVars, consVars, dispVars, timerVars, sessVars, readyVars, identVars>>
consOthers == <<msgVars, nsqdVars, prodVars, dispVars, timerVars, sessVars, readyVars, identVars>>
dispOthers == <<msgVars, nsqdVars, prodVars, consVars, timerVars, sessVars, readyVars, identVars>>
timerOthers == <<msgVars, nsqdVars, prodVars, consVars, dispVars, sessVars, readyVars, identVars>>

\* gnsq/states.py
INIT         == "INIT"
CONNECTED    == "CONNECTED"
DISCONNECTED == "DISCONNECTED"
RUNNING      == "RUNNING"
BACKOFF      == "BACKOFF"
THROTTLED    == "THROTTLED"
CLOSED       == "CLOSED"

(***************************************************************************)
(* gnsq/message.py                                                         *)
(***************************************************************************)

\* Calls made on the one message of SpecMessage.
MaxMsgCalls == 5

AlreadyResponded == "NSQException(already responded)"
ReceiverError    == "error raised by the receiver"

MsgOps == {"finish", "requeue", "touch"}

MessageInit ==
    /\ msg_has_responded = FALSE
    /\ msg_signals = [o \in MsgOps |-> 0]
    /\ msg_returned = [o \in MsgOps |-> 0]
    /\ msg_calls = 0
    /\ msg_last = [op |-> "none", pre |-> FALSE, res |-> "none",
                   signals |-> [o \in MsgOps |-> 0], backoff |-> FALSE]

\* The shared shape of the three calls: the guard on _has_responded, the flag
\* update (terminal calls only) and the emission to the session, whose receiver
\* (NsqdTCPClient.handle_finish/requeue/touch) either returns or raises.
\* Faulty variant of the guard: touch is let through after the terminal response.
Message_rejects_terminal_only(op) ==
    msg_has_responded /\ op # "touch"

Message_rejects(op) ==
    msg_has_responded

\* Faulty variant of the flag update: touch marks the message responded too.
Message_marks_any(op) ==
    TRUE

Message_marks(op) ==
    op \in {"finish", "requeue"}

Message_call(op, backoff, recv_ok) ==
    /\ msg_calls' = msg_calls + 1
    /\ IF Message_rejects(op)
       THEN /\ msg_last' = [op |-> op, pre |-> msg_has_responded, res |-> AlreadyResponded,
                            signals |-> msg_signals, backoff |-> backoff]
            /\ UNCHANGED <<msg_has_responded, msg_signals, msg_returned>>
       ELSE /\ msg_has_responded' = (msg_has_responded \/ Message_marks(op))
            /\ msg_signals' = [msg_signals EXCEPT ![op] = @ + 1]
            /\ msg_returned' = [msg_returned EXCEPT ![op] = IF recv_ok THEN @ + 1 ELSE @]
            /\ msg_last' = [op |-> op, pre |-> msg_has_responded,
                            res |-> IF recv_ok THEN "ok" ELSE ReceiverError,
                            signals |-> msg_signals, backoff |-> backoff]

Message_finish ==
    /\ msg_calls < MaxMsgCalls
    /\ UNCHANGED msgOthers
    /\ \E recv_ok \in BOOLEAN : Message_call("finish", FALSE, recv_ok)

Message_requeue ==
    /\ msg_calls < MaxMsgCalls
    /\ UNCHANGED msgOthers
    /\ \E backoff \in BOOLEAN, recv_ok \in BOOLEAN : Message_call("requeue", backoff, recv_ok)

Message_touch ==
    /\ msg_calls < MaxMsgCalls
    /\ UNCHANGED msgOthers
    /\ \E recv_ok \in BOOLEAN : Message_call("touch", FALSE, recv_ok)

MessageNext ==
    \/ Message_finish
    \/ Message_requeue
    \/ Message_touch

(***************************************************************************)
(* gnsq/nsqd.py, gnsq/errors.py                                            *)
(***************************************************************************)

\* Commands written on the one session of SpecNsqd.
MaxSent == 3
\* MESSAGE frames read on the one session of SpecNsqd.
MaxNsqdMessages == 2
\* publish() is called with defer in -MaxDefer..MaxDefer, or without defer.
MaxDefer == 1
\* RDY counts passed to ready() go up to MaxReady.
MaxReady == 1

\* gnsq/errors.py: the keys of ERROR_CODES, and one code that is not a key.
KnownErrorCodes ==
    {"E_INVALID", "E_BAD_BODY", "E_BAD_TOPIC", "E_BAD_CHANNEL", "E_BAD_MESSAGE",
     "E_PUT_FAILED", "E_PUB_FAILED", "E_MPUB_FAILED", "E_FINISH_FAILED",
     "E_AUTH_DISABLED", "E_AUTH_FAILED", "E_UNAUTHORIZED", "E_FIN_FAILED",
     "E_REQUEUE_FAILED", "E_REQ_FAILED", "E_TOUCH_FAILED"}

UnknownErrorCode == "E_SOMETHING_ELSE"

ErrorCodes == KnownErrorCodes \cup {UnknownErrorCode}

ERROR_CODES(code) ==
    CASE code = "E_INVALID"        -> "NSQInvalid"
      [] code = "E_BAD_BODY"       -> "NSQBadBody"
      [] code = "E_BAD_TOPIC"      -> "NSQBadTopic"
      [] code = "E_BAD_CHANNEL"    -> "NSQBadChannel"
      [] code = "E_BAD_MESSAGE"    -> "NSQBadMessage"
      [] code = "E_PUT_FAILED"     -> "NSQPutFailed"
      [] code = "E_PUB_FAILED"     -> "NSQPubFailed"
      [] code = "E_MPUB_FAILED"    -> "NSQMPubFailed"
      [] code = "E_FINISH_FAILED"  -> "NSQFinishFailed"
      [] code = "E_AUTH_DISABLED"  -> "NSQAuthDisabled"
      [] code = "E_AUTH_FAILED"    -> "NSQAuthFailed"
      [] code = "E_UNAUTHORIZED"   -> "NSQUnauthorized"
      [] code = "E_FIN_FAILED"     -> "NSQFinishFailed"
      [] code = "E_REQUEUE_FAILED" -> "NSQRequeueFailed"
      [] code = "E_REQ_FAILED"     -> "NSQRequeueFailed"
      [] code = "E_TOUCH_FAILED"   -> "NSQTouchFailed"

\* The class attribute `fatal`: True on NSQErrorCode, overridden by three classes.
\* Faulty variant: NSQFinishFailed does not override it.
fatal_finish_not_overridden(cls) ==
    cls \notin {"NSQRequeueFailed", "NSQTouchFailed"}

fatal(cls) ==
    cls \notin {"NSQFinishFailed", "NSQRequeueFailed", "NSQTouchFailed"}

\* make_error: the first word of the payload selects the class, NSQErrorCode
\* when the word is no key of ERROR_CODES.
make_error(code) ==
    LET cls == IF code \in KnownErrorCodes THEN ERROR_CODES(code) ELSE "NSQErrorCode"
    IN  [code |-> code, cls |-> cls, fatal |-> fatal(cls)]

NoSignal == [name |-> "none"]

\* nsq.unpack_response: the frame read_response() has read, none when the read
\* failed or the call was not a read.
NoFrame == [type |-> "none", data |-> "none"]

NsqdInit ==
    /\ nsqd_state = INIT
    /\ nsqd_pc = "idle"
    /\ nsqd_sent = <<>>
    /\ nsqd_in_flight = 0
    /\ nsqd_ready_count = 0
    /\ nsqd_last = [op |-> "none", pre |-> INIT, res |-> "none", sent |-> <<>>,
                    signal |-> NoSignal, frame |-> NoFrame]

NsqdLast(op, res, signal) ==
    [op |-> op, pre |-> nsqd_state, res |-> res, sent |-> nsqd_sent, signal |-> signal,
     frame |-> NoFrame]

\* read_response() has unpacked `frame` and run its handler.
NsqdRead(frame, res, signal) ==
    [NsqdLast("read_response", res, signal) EXCEPT !.frame = frame]

\* close_stream as a state function: the state it leaves.
\* Faulty variant: the stream is closed whatever the state, a closed session included.
close_stream_state_unguarded(s) ==
    DISCONNECTED

close_stream_state(s) ==
    IF s # CONNECTED THEN s ELSE DISCONNECTED

\* connect(): the guard that refuses a closed session.
\* Faulty variant: a closed session is connected again.
connect_refuses_never(s) ==
    FALSE

connect_refuses(s) ==
    s = DISCONNECTED

\* connect(): the early return on a session that is connected.
\* Faulty variant: the early return is missing, the stream is opened again.
connect_returns_never(s) ==
    FALSE

connect_returns(s) ==
    s = CONNECTED

\* connect(), up to the point where it blocks in send(MAGIC_V2).
NsqdTCPClient_connect ==
    /\ UNCHANGED nsqdOthers
    /\ nsqd_pc = "idle"
    /\ UNCHANGED <<nsqd_sent, nsqd_in_flight, nsqd_ready_count>>
    /\ IF connect_refuses(nsqd_state)
       THEN /\ nsqd_last' = NsqdLast("connect", "NSQException(connection already closed)",
                                     NoSignal)
            /\ UNCHANGED <<nsqd_state, nsqd_pc>>
       ELSE IF connect_returns(nsqd_state)
       THEN /\ nsqd_last' = NsqdLast("connect", "ok", NoSignal)
            /\ UNCHANGED <<nsqd_state, nsqd_pc>>
       ELSE \/ \* Stream.connect() raises NSQSocketError
               /\ nsqd_last' = NsqdLast("connect", "NSQSocketError", NoSignal)
               /\ UNCHANGED <<nsqd_state, nsqd_pc>>
            \/ \* the socket is open: state = CONNECTED, then send(MAGIC_V2) blocks
               /\ nsqd_state' = CONNECTED
               /\ nsqd_pc' = "magic"
               /\ nsqd_last' = NsqdLast("connect", "sending", NoSignal)

\* send(MAGIC_V2) returns or raises; send() closes the stream before it re-raises.
NsqdTCPClient_connect_magic ==
    /\ UNCHANGED nsqdOthers
    /\ nsqd_pc = "magic"
    /\ nsqd_pc' = "idle"
    /\ UNCHANGED <<nsqd_in_flight, nsqd_ready_count>>
    /\ \/ /\ nsqd_state = CONNECTED
          /\ nsqd_sent' = Append(nsqd_sent, "MAGIC")
          /\ nsqd_last' = NsqdLast("connect_magic", "ok", NoSignal)
          /\ UNCHANGED nsqd_state
       \/ /\ nsqd_state' = close_stream_state(nsqd_state)
          /\ nsqd_last' = NsqdLast("connect_magic", "NSQSocketError",
                                   IF nsqd_state = CONNECTED
                                   THEN [name |-> "on_close"] ELSE NoSignal)
          /\ UNCHANGED nsqd_sent

NsqdTCPClient_close_stream ==
    /\ UNCHANGED nsqdOthers
    /\ nsqd_state' = close_stream_state(nsqd_state)
    /\ nsqd_last' = NsqdLast("close_stream", "ok",
                             IF nsqd_state' # nsqd_state
                             THEN [name |-> "on_close"] ELSE NoSignal)
    /\ UNCHANGED <<nsqd_pc, nsqd_sent, nsqd_in_flight, nsqd_ready_count>>

\* read_response() when no frame can be read: the stream is closed, or the read
\* fails; _read_response closes the stream and re-raises.
NsqdTCPClient_read_response_fails ==
    /\ UNCHANGED nsqdOthers
    /\ nsqd_state # INIT
    /\ nsqd_state' = close_stream_state(nsqd_state)
    /\ nsqd_last' = NsqdLast("read_response", "NSQSocketError",
                             IF nsqd_state = CONNECTED
                             THEN [name |-> "on_close"] ELSE NoSignal)
    /\ UNCHANGED <<nsqd_pc, nsqd_sent, nsqd_in_flight, nsqd_ready_count>>

\* handle_response: the test that answers a frame with NOP.
\* Faulty variant: every RESPONSE frame is answered.
IsHeartbeat_any(data) ==
    TRUE

IsHeartbeat(data) ==
    data = "_heartbeat_"

\* read_response() on a RESPONSE frame: handle_response.  nop() writes NOP or
\* fails, and then send() closes the stream and the error leaves read_response
\* before on_response is sent.
NsqdTCPClient_handle_response ==
    /\ UNCHANGED nsqdOthers
    /\ nsqd_state = CONNECTED
    /\ UNCHANGED <<nsqd_pc, nsqd_in_flight, nsqd_ready_count>>
    /\ \E data \in {"OK", "_heartbeat_", "CLOSE_WAIT"} :
        LET frame == [type |-> "RESPONSE", data |-> data] IN
        IF IsHeartbeat(data)
        THEN \/ /\ Len(nsqd_sent) < MaxSent
                /\ nsqd_sent' = Append(nsqd_sent, "NOP")
                /\ nsqd_last' = NsqdRead(frame, "ok",
                                         [name |-> "on_response", data |-> data])
                /\ UNCHANGED nsqd_state
             \/ /\ nsqd_state' = close_stream_state(nsqd_state)
                /\ nsqd_last' = NsqdRead(frame, "NSQSocketError", [name |-> "on_close"])
                /\ UNCHANGED nsqd_sent
        ELSE /\ nsqd_last' = NsqdRead(frame, "ok",
                                      [name |-> "on_response", data |-> data])
             /\ UNCHANGED <<nsqd_state, nsqd_sent>>

\* read_response() on an ERROR frame: handle_error.
NsqdTCPClient_handle_error ==
    /\ UNCHANGED nsqdOthers
    /\ nsqd_state = CONNECTED
    /\ UNCHANGED <<nsqd_pc, nsqd_sent, nsqd_in_flight, nsqd_ready_count>>
    /\ \E code \in ErrorCodes :
        LET error == make_error(code) IN
        /\ nsqd_state' = IF error.fatal THEN close_stream_state(nsqd_state) ELSE nsqd_state
        /\ nsqd_last' = NsqdRead([type |-> "ERROR", data |-> code], "ok",
                                 [name |-> "on_error", frame |-> code, error |-> error])

\* read_response() on a MESSAGE frame, whatever its body: handle_message.
NsqdTCPClient_handle_message ==
    /\ UNCHANGED nsqdOthers
    /\ nsqd_state = CONNECTED
    /\ nsqd_in_flight < MaxNsqdMessages
    /\ nsqd_in_flight' = nsqd_in_flight + 1
    /\ \E body \in {"body", "_heartbeat_"} :
          nsqd_last' = NsqdRead([type |-> "MESSAGE", data |-> body], "ok",
                                [name |-> "on_message"])
    /\ UNCHANGED <<nsqd_state, nsqd_pc, nsqd_sent, nsqd_ready_count>>

\* read_response() on a frame of an unknown type: NSQFrameError, stream left open.
NsqdTCPClient_unknown_frame ==
    /\ UNCHANGED nsqdOthers
    /\ nsqd_state = CONNECTED
    /\ nsqd_last' = NsqdRead([type |-> "unknown", data |-> "_heartbeat_"],
                             "NSQFrameError", NoSignal)
    /\ UNCHANGED <<nsqd_state, nsqd_pc, nsqd_sent, nsqd_in_flight, nsqd_ready_count>>

\* gnsq/protocol.py: '%d' % n
Digit(d) ==
    CASE d = 0 -> "0" [] d = 1 -> "1" [] d = 2 -> "2" [] d = 3 -> "3" [] d = 4 -> "4"
      [] d = 5 -> "5" [] d = 6 -> "6" [] d = 7 -> "7" [] d = 8 -> "8" [] d = 9 -> "9"

RECURSIVE FormatNat(_)
FormatNat(n) ==
    IF n < 10 THEN Digit(n) ELSE FormatNat(n \div 10) \o Digit(n % 10)

FormatInt(n) ==
    IF n < 0 THEN "-" \o FormatNat(0 - n) ELSE FormatNat(n)

\* gnsq/protocol.py: the command line of publish and of deferpublish for the
\* topic "t", which assert_valid_topic_name accepts; delay_ms is formatted as
\* it comes.
publish ==
    "PUB t"

deferpublish(delay_ms) ==
    "DPUB t " \o FormatInt(delay_ms)

\* publish(topic, data, defer): the command is built and handed to send(),
\* which writes it, or fails and closes the stream.  Before connect() there is
\* no stream to write to.
NsqdTCPClient_publish ==
    /\ UNCHANGED nsqdOthers
    /\ UNCHANGED <<nsqd_pc, nsqd_in_flight, nsqd_ready_count>>
    /\ \E deferred \in BOOLEAN, defer \in (0 - MaxDefer)..MaxDefer :
        LET command == IF deferred THEN deferpublish(defer) ELSE publish IN
        IF nsqd_state # CONNECTED
        THEN /\ nsqd_last' = NsqdLast("publish",
                                      IF nsqd_state = INIT THEN "AttributeError"
                                      ELSE "NSQSocketError", NoSignal)
             /\ UNCHANGED <<nsqd_state, nsqd_sent>>
        ELSE \/ /\ Len(nsqd_sent) < MaxSent
                /\ nsqd_sent' = Append(nsqd_sent, command)
                /\ nsqd_last' = NsqdLast("publish", "ok", NoSignal)
                /\ UNCHANGED nsqd_state
             \/ /\ nsqd_state' = close_stream_state(nsqd_state)
                /\ nsqd_last' = NsqdLast("publish", "NSQSocketError",
                                         [name |-> "on_close"])
                /\ UNCHANGED nsqd_sent

\* A command that send() cannot write: before connect() there is no stream,
\* after close_stream() the stream refuses.
SendRefused(state) ==
    IF state = INIT THEN "AttributeError" ELSE "NSQSocketError"

\* finish / requeue: the count of messages in flight once the command is out.
\* Faulty variant: a count of 0 is left alone.
finish_inflight_floor(n) ==
    IF n > 0 THEN n - 1 ELSE 0

finish_inflight(n) ==
    n - 1

\* finish(message_id) / requeue(message_id, timeout, backoff) for any message
\* id, whether through Message.finish() / requeue() or called on the session:
\* the command is written, the message counted out and the signal sent, or
\* send() fails and closes the stream.
Respond(op, command, signal) ==
    IF nsqd_state # CONNECTED
    THEN /\ nsqd_last' = NsqdLast(op, SendRefused(nsqd_state), NoSignal)
         /\ UNCHANGED <<nsqd_state, nsqd_sent, nsqd_in_flight>>
    ELSE \/ /\ Len(nsqd_sent) < MaxSent
            /\ nsqd_sent' = Append(nsqd_sent, command)
            /\ nsqd_in_flight' = finish_inflight(nsqd_in_flight)
            /\ nsqd_last' = NsqdLast(op, "ok", [name |-> signal])
            /\ UNCHANGED nsqd_state
         \/ /\ nsqd_state' = close_stream_state(nsqd_state)
            /\ nsqd_last' = NsqdLast(op, "NSQSocketError", [name |-> "on_close"])
            /\ UNCHANGED <<nsqd_sent, nsqd_in_flight>>

NsqdTCPClient_finish ==
    /\ UNCHANGED nsqdOthers
    /\ UNCHANGED <<nsqd_pc, nsqd_ready_count>>
    /\ Respond("finish", "FIN", "on_finish")

NsqdTCPClient_requeue ==
    /\ UNCHANGED nsqdOthers
    /\ UNCHANGED <<nsqd_pc, nsqd_ready_count>>
    /\ Respond("requeue", "REQ", "on_requeue")

\* gnsq/protocol.py, ready(count): a negative count is refused.
ready_refuses(count) ==
    count < 0

\* ready(count): ready_count is assigned, then the command is built, which
\* raises ValueError for a negative count, and written.
NsqdTCPClient_ready ==
    /\ UNCHANGED nsqdOthers
    /\ UNCHANGED <<nsqd_pc, nsqd_in_flight>>
    /\ \E count \in (0 - 1)..MaxReady :
        /\ nsqd_ready_count' = count
        /\ IF ready_refuses(count)
           THEN /\ nsqd_last' = NsqdLast("ready", "ValueError", NoSignal)
                /\ UNCHANGED <<nsqd_state, nsqd_sent>>
           ELSE IF nsqd_state # CONNECTED
           THEN /\ nsqd_last' = NsqdLast("ready", SendRefused(nsqd_state), NoSignal)
                /\ UNCHANGED <<nsqd_state, nsqd_sent>>
           ELSE \/ /\ Len(nsqd_sent) < MaxSent
                   /\ nsqd_sent' = Append(nsqd_sent, "RDY")
                   /\ nsqd_last' = NsqdLast("ready", "ok", NoSignal)
                   /\ UNCHANGED nsqd_state
                \/ /\ nsqd_state' = close_stream_state(nsqd_state)
                   /\ nsqd_last' = NsqdLast("ready", "NSQSocketError",
                                            [name |-> "on_close"])
                   /\ UNCHANGED nsqd_sent

NsqdNext ==
    \/ NsqdTCPClient_connect
    \/ NsqdTCPClient_connect_magic
    \/ NsqdTCPClient_close_stream
    \/ NsqdTCPClient_read_response_fails
    \/ NsqdTCPClient_handle_response
    \/ NsqdTCPClient_handle_error
    \/ NsqdTCPClient_handle_message
    \/ NsqdTCPClient_unknown_frame
    \/ NsqdTCPClient_publish

\* The session as a consumer drives it: messages come in and are answered,
\* and RDY is sent.
NsqdCountsNext ==
    \/ NsqdTCPClient_connect
    \/ NsqdTCPClient_connect_magic
    \/ NsqdTCPClient_close_stream
    \/ NsqdTCPClient_handle_message
    \/ NsqdTCPClient_finish
    \/ NsqdTCPClient_requeue
    \/ NsqdTCPClient_ready

(***************************************************************************)
(* gnsq/producer.py                                                        *)
(***************************************************************************)

\* Configured nsqd_tcp_addresses of the producer: 1..NumProdAddrs.
NumProdAddrs == 2
\* NsqdTCPClient objects the producer builds, over all addresses.
MaxProdConns == 3
\* Concurrent callers of publish / multipublish.
NumPublishers == 2
\* AsyncResult objects created by publish / multipublish.
MaxPromises == 2

ProdAddrs  == 1..NumProdAddrs
Publishers == 1..NumPublishers
Promises   == 1..MaxPromises

\* The error frames a broker sends a producer: one fatal, one not.
ProdErrorCodes == {"E_PUB_FAILED", "E_FIN_FAILED"}

ConnectionClosed == "NSQException(connection closed)"

Range(q) == {q[i] : i \in DOMAIN q}

NoSession == <<0, 0>>

RECURSIVE ProdConnsBuilt(_)
ProdConnsBuilt(addrs) ==
    IF addrs = {} THEN 0
    ELSE LET a == CHOOSE x \in addrs : TRUE
         IN  prod_gen[a] + ProdConnsBuilt(addrs \ {a})

IdlePub == [pc |-> "idle", conn |-> NoSession, sent |-> FALSE]

NoEvent == [op |-> "none", a |-> 0, res |-> "none"]

ErrorEvent(a, code) == [op |-> "handle_error", a |-> a, res |-> code]

FailureEvent(a) == [op |-> "handle_connection_failure", a |-> a, res |-> "none"]

ProducerInit ==
    /\ prod_state = INIT
    /\ prod_pending = [a \in ProdAddrs |-> 0]
    /\ prod_gen = [a \in ProdAddrs |-> 0]
    /\ prod_cstate = [a \in ProdAddrs |-> INIT]
    /\ prod_phase = [a \in ProdAddrs |-> "none"]
    /\ prod_pool = <<>>
    /\ prod_hasq = {}
    /\ prod_queues = [a \in ProdAddrs |-> <<>>]
    /\ prod_status = [i \in Promises |-> "unused"]
    /\ prod_owner = [i \in Promises |-> NoSession]
    /\ prod_resolved = <<>>
    /\ prod_wire = [a \in ProdAddrs |-> 0]
    /\ prod_pub = [p \in Publishers |-> IdlePub]
    /\ prod_last = NoEvent

\* conn.is_connected for a session: only the latest object of an address can be.
ProdIsConnected(conn) ==
    /\ conn[2] = prod_gen[conn[1]]
    /\ prod_cstate[conn[1]] = CONNECTED

\* _clear_responses(conn, error): the queue stored under conn's key is popped and
\* each of its promises gets set_exception(error), in queue order.
\* Faulty variant: the queues of every key are cleared.
ClearedKeys_all(a) ==
    ProdAddrs

ClearedKeys(a) ==
    {a}

ClearStatus(a, error) ==
    [i \in Promises |->
        IF \E k \in ClearedKeys(a) : k \in prod_hasq /\ i \in Range(prod_queues[k])
        THEN error ELSE prod_status[i]]

ClearQueues(a) ==
    [k \in ProdAddrs |-> IF k \in ClearedKeys(a) THEN <<>> ELSE prod_queues[k]]

RECURSIVE ConcatQueues(_, _)
ConcatQueues(keys, q) ==
    IF keys = {} THEN <<>>
    ELSE LET k == CHOOSE x \in keys : \A y \in keys : x <= y
         IN  (IF k \in prod_hasq THEN q[k] ELSE <<>>) \o ConcatQueues(keys \ {k}, q)

ClearResolved(a) ==
    prod_resolved \o ConcatQueues(ClearedKeys(a), prod_queues)

\* handle_response: which promise of the deque an OK resolves.
\* Faulty variant: pop() instead of popleft().
PoppedIndex_last(q) ==
    Len(q)

PoppedIndex(q) ==
    1

RemoveAt(q, k) ==
    [i \in 1..(Len(q) - 1) |-> IF i < k THEN q[i] ELSE q[i + 1]]

\* publish / multipublish: where the new promise goes in the deque.
\* Faulty variant: appendleft() instead of append().
Enqueue_left(q, n) ==
    <<n>> \o q

Enqueue(q, n) ==
    Append(q, n)

\* handle_connection_failure(conn) for the latest object of address a, whose
\* state is s when the handler is called: close_stream, _clear_responses
\* with 'connection closed', and a reconnection through gevent.spawn_later
\* while the producer is running.
ProdConnectionFailure(a, s, cleared) ==
    /\ prod_cstate' = [prod_cstate EXCEPT ![a] = close_stream_state(s)]
    /\ prod_phase' = [prod_phase EXCEPT ![a] = "failed"]
    /\ IF cleared
       THEN UNCHANGED <<prod_status, prod_resolved, prod_queues, prod_hasq>>
       ELSE /\ prod_status' = ClearStatus(a, ConnectionClosed)
            /\ prod_resolved' = ClearResolved(a)
            /\ prod_queues' = ClearQueues(a)
            /\ prod_hasq' = prod_hasq \ ClearedKeys(a)
    /\ prod_pending' = IF prod_state = RUNNING
                       THEN [prod_pending EXCEPT ![a] = @ + 1] ELSE prod_pending

\* start()
Producer_start ==
    /\ UNCHANGED prodOthers
    /\ prod_last' = NoEvent
    /\ UNCHANGED <<prod_gen, prod_cstate, prod_phase, prod_pool, prod_hasq, prod_queues,
                   prod_status, prod_owner, prod_resolved, prod_wire, prod_pub>>
    /\ \/ /\ prod_state = CLOSED
          /\ UNCHANGED <<prod_state, prod_pending>>
       \/ /\ prod_state = RUNNING
          /\ UNCHANGED <<prod_state, prod_pending>>
       \/ /\ prod_state = INIT
          /\ prod_state' = RUNNING
          /\ prod_pending' = [a \in ProdAddrs |-> 1]

\* connect_to_nsqd(address, port), up to the point where conn.connect() blocks.
Producer_connect_to_nsqd(a) ==
    /\ UNCHANGED prodOthers
    /\ prod_last' = NoEvent
    /\ prod_pending[a] > 0
    /\ prod_pending' = [prod_pending EXCEPT ![a] = @ - 1]
    /\ UNCHANGED <<prod_state, prod_pool, prod_hasq, prod_queues, prod_status, prod_owner,
                   prod_resolved, prod_pub>>
    /\ IF prod_state # RUNNING
       THEN UNCHANGED <<prod_gen, prod_cstate, prod_phase, prod_wire>>
       ELSE /\ ProdConnsBuilt(ProdAddrs) < MaxProdConns
            /\ prod_gen' = [prod_gen EXCEPT ![a] = @ + 1]
            /\ prod_cstate' = [prod_cstate EXCEPT ![a] = INIT]
            /\ prod_phase' = [prod_phase EXCEPT ![a] = "connecting"]
            /\ prod_wire' = [prod_wire EXCEPT ![a] = 0]

\* connect_to_nsqd, from conn.connect() / conn.identify() returning or raising
\* to its end: handle_connection_failure or handle_connection_success.
Producer_connect_result(a) ==
    /\ UNCHANGED prodOthers
    /\ prod_phase[a] = "connecting"
    /\ UNCHANGED <<prod_state, prod_gen, prod_owner, prod_wire, prod_pub>>
    /\ \/ \* connect() raised an NSQException, or identify() did after it
          /\ \E s \in {INIT, CONNECTED} : ProdConnectionFailure(a, s, FALSE)
          /\ prod_last' = FailureEvent(a)
          /\ UNCHANGED prod_pool
       \/ \* connected and identified, but the producer was closed meanwhile
          /\ prod_state # RUNNING
          /\ ProdConnectionFailure(a, CONNECTED, FALSE)
          /\ prod_last' = FailureEvent(a)
          /\ UNCHANGED prod_pool
       \/ \* handle_connection_success
          /\ prod_state = RUNNING
          /\ prod_cstate' = [prod_cstate EXCEPT ![a] = CONNECTED]
          /\ prod_phase' = [prod_phase EXCEPT ![a] = "listening"]
          /\ prod_queues' = [prod_queues EXCEPT ![a] = <<>>]
          /\ prod_hasq' = prod_hasq \cup {a}
          /\ prod_pool' = Append(prod_pool, <<a, prod_gen[a]>>)
          /\ prod_last' = NoEvent
          /\ UNCHANGED <<prod_status, prod_resolved, prod_pending>>

\* _get_connection: closed sessions at the head of the pool are discarded; the
\* index of the first connected one, 0 if there is none.
FirstConnected(pool) ==
    IF \E k \in DOMAIN pool : ProdIsConnected(pool[k])
    THEN CHOOSE k \in DOMAIN pool :
            /\ ProdIsConnected(pool[k])
            /\ \A j \in 1..(k - 1) : ~ProdIsConnected(pool[j])
    ELSE 0

\* _put_connection
PutConnection(pool, conn) ==
    IF prod_state = RUNNING THEN Append(pool, conn) ELSE pool

NextPromise == CHOOSE n \in Promises :
    /\ prod_status[n] = "unused"
    /\ \A k \in Promises : prod_status[k] = "unused" => n <= k

\* publish() / multipublish(), up to the point where conn.publish() blocks in
\* send(), or to the exception that ends the call before that.  `valid` is
\* whether the command can be built (nsq.publish raises on a bad topic name),
\* `sent` whether the stream's writer gets it onto the socket.
Producer_publish_begin(p) ==
    /\ UNCHANGED prodOthers
    /\ prod_last' = NoEvent
    /\ prod_pub[p].pc = "idle"
    /\ UNCHANGED <<prod_state, prod_pending, prod_gen, prod_cstate, prod_phase,
                   prod_hasq, prod_resolved>>
    /\ LET k == FirstConnected(prod_pool) IN
       IF prod_state # RUNNING
       THEN UNCHANGED <<prod_pool, prod_queues, prod_status, prod_owner, prod_wire,
                           prod_pub>>
       ELSE IF k = 0
       THEN /\ prod_pool' = <<>>
            /\ UNCHANGED <<prod_queues, prod_status, prod_owner, prod_wire, prod_pub>>
       ELSE LET conn == prod_pool[k]
                a    == conn[1]
                rest == SubSeq(prod_pool, k + 1, Len(prod_pool))
            IN
            IF a \notin prod_hasq
            THEN /\ prod_pool' = PutConnection(rest, conn)
                 /\ UNCHANGED <<prod_queues, prod_status, prod_owner, prod_wire, prod_pub>>
            ELSE /\ \E n \in Promises : prod_status[n] = "unused"
                 /\ prod_queues' = [prod_queues EXCEPT ![a] = Enqueue(@, NextPromise)]
                 /\ prod_status' = [prod_status EXCEPT ![NextPromise] = "pending"]
                 /\ prod_owner' = [prod_owner EXCEPT ![NextPromise] = conn]
                 /\ \E valid \in BOOLEAN, sent \in BOOLEAN :
                      IF ~valid
                      THEN /\ ~sent
                           /\ prod_pool' = PutConnection(rest, conn)
                           /\ UNCHANGED <<prod_wire, prod_pub>>
                      ELSE /\ prod_pool' = rest
                           /\ prod_pub' = [prod_pub EXCEPT ![p] =
                                  [pc |-> "sending", conn |-> conn, sent |-> sent]]
                           /\ prod_wire' = [prod_wire EXCEPT ![a] =
                                  IF sent THEN @ + 1 ELSE @]

\* publish() / multipublish(), from send() returning or raising to the end of
\* the call: send() closes the stream before it re-raises, and the finally
\* clause puts the session back.
Producer_publish_end(p) ==
    /\ UNCHANGED prodOthers
    /\ prod_last' = NoEvent
    /\ prod_pub[p].pc = "sending"
    /\ LET conn == prod_pub[p].conn
           a    == conn[1]
       IN
       /\ prod_pub' = [prod_pub EXCEPT ![p] = IdlePub]
       /\ prod_pool' = PutConnection(prod_pool, conn)
       /\ prod_cstate' = IF ~prod_pub[p].sent /\ conn[2] = prod_gen[a]
                         THEN [prod_cstate EXCEPT ![a] = close_stream_state(@)]
                         ELSE prod_cstate
    /\ UNCHANGED <<prod_state, prod_pending, prod_gen, prod_phase, prod_hasq, prod_queues,
                   prod_status, prod_owner, prod_resolved, prod_wire>>

\* The reader of session a reads the OK that answers a written command:
\* Producer.handle_response.  A missing key or an empty deque raises KeyError /
\* IndexError, which _listen does not catch: the reader greenlet dies.
Producer_handle_response(a) ==
    /\ UNCHANGED prodOthers
    /\ prod_last' = NoEvent
    /\ prod_phase[a] = "listening"
    /\ prod_cstate[a] = CONNECTED
    /\ prod_wire[a] > 0
    /\ prod_wire' = [prod_wire EXCEPT ![a] = @ - 1]
    /\ UNCHANGED <<prod_state, prod_pending, prod_gen, prod_cstate, prod_pool, prod_hasq,
                   prod_owner, prod_pub>>
    /\ IF a \notin prod_hasq \/ prod_queues[a] = <<>>
       THEN /\ prod_phase' = [prod_phase EXCEPT ![a] = "dead"]
            /\ UNCHANGED <<prod_queues, prod_status, prod_resolved>>
       ELSE LET k == PoppedIndex(prod_queues[a])
                h == prod_queues[a][k]
            IN
            /\ prod_queues' = [prod_queues EXCEPT ![a] = RemoveAt(@, k)]
            /\ prod_status' = [prod_status EXCEPT ![h] = "OK"]
            /\ prod_resolved' = Append(prod_resolved, h)
            /\ UNCHANGED prod_phase

\* The reader of session a reads a heartbeat: NsqdTCPClient.handle_response
\* answers NOP, Producer.handle_response resolves nothing.  A failing NOP
\* closes the stream and the NSQSocketError ends _listen.
Producer_heartbeat(a) ==
    /\ UNCHANGED prodOthers
    /\ prod_phase[a] = "listening"
    /\ prod_cstate[a] = CONNECTED
    /\ UNCHANGED <<prod_state, prod_gen, prod_pool, prod_owner, prod_wire, prod_pub>>
    /\ \/ /\ prod_last' = NoEvent
          /\ UNCHANGED <<prod_pending, prod_cstate, prod_phase, prod_hasq, prod_queues,
                         prod_status, prod_resolved>>
       \/ /\ ProdConnectionFailure(a, prod_cstate[a], FALSE)
          /\ prod_last' = FailureEvent(a)

\* The reader of session a reads an ERROR frame: Producer.handle_error clears
\* the session's promises with the error; a fatal error closes the stream, the
\* listen loop ends and handle_connection_failure runs in the same breath.
Producer_handle_error(a) ==
    /\ UNCHANGED prodOthers
    /\ prod_phase[a] = "listening"
    /\ prod_cstate[a] = CONNECTED
    /\ UNCHANGED <<prod_state, prod_gen, prod_pool, prod_owner, prod_wire, prod_pub>>
    /\ \E code \in ProdErrorCodes :
        LET error == make_error(code) IN
        /\ prod_status' = ClearStatus(a, error.cls)
        /\ prod_resolved' = ClearResolved(a)
        /\ prod_queues' = ClearQueues(a)
        /\ prod_hasq' = prod_hasq \ ClearedKeys(a)
        /\ prod_last' = ErrorEvent(a, code)
        /\ IF error.fatal
           THEN ProdConnectionFailure(a, CONNECTED, TRUE)
           ELSE UNCHANGED <<prod_cstate, prod_phase, prod_pending>>

\* The reader of session a leaves listen(): the read raised NSQSocketError, or
\* the stream was closed under it.  _listen runs handle_connection_failure.
Producer_listen_ends(a) ==
    /\ UNCHANGED prodOthers
    /\ prod_phase[a] = "listening"
    /\ ProdConnectionFailure(a, prod_cstate[a], FALSE)
    /\ prod_last' = FailureEvent(a)
    /\ UNCHANGED <<prod_state, prod_gen, prod_pool, prod_owner, prod_wire, prod_pub>>

\* close(): every session in the pool is taken out and its stream closed.
Producer_close ==
    /\ UNCHANGED prodOthers
    /\ prod_last' = NoEvent
    /\ UNCHANGED <<prod_pending, prod_gen, prod_phase, prod_hasq, prod_queues, prod_status,
                   prod_owner, prod_resolved, prod_wire, prod_pub>>
    /\ IF prod_state # RUNNING
       THEN UNCHANGED <<prod_state, prod_cstate, prod_pool>>
       ELSE /\ prod_state' = CLOSED
            /\ prod_pool' = <<>>
            /\ prod_cstate' = [a \in ProdAddrs |->
                  IF <<a, prod_gen[a]>> \in Range(prod_pool)
                  THEN close_stream_state(prod_cstate[a]) ELSE prod_cstate[a]]

ProducerNext ==
    \/ Producer_start
    \/ \E a \in ProdAddrs : Producer_connect_to_nsqd(a)
    \/ \E a \in ProdAddrs : Producer_connect_result(a)
    \/ \E p \in Publishers : Producer_publish_begin(p)
    \/ \E p \in Publishers : Producer_publish_end(p)
    \/ \E a \in ProdAddrs : Producer_handle_response(a)
    \/ \E a \in ProdAddrs : Producer_heartbeat(a)
    \/ \E a \in ProdAddrs : Producer_handle_error(a)
    \/ \E a \in ProdAddrs : Producer_listen_ends(a)
    \/ Producer_close

(***************************************************************************)
(* gnsq/backofftimer.py                                                    *)
(***************************************************************************)

\* The calls made on one timer.
MaxTimerCalls == 5

\* BackoffTimer.failure
BackoffTimer_failure(c) == c + 1

\* BackoffTimer.success: max(self.c - 1, 0).
\* Faulty variant: the counter is not held at 0.
BackoffTimer_success_unclamped(c) == c - 1

BackoffTimer_success(c) == IF c - 1 >= 0 THEN c - 1 ELSE 0

\* BackoffTimer.reset
BackoffTimer_reset(c) == 0

\* BackoffTimer.is_reset
BackoffTimer_is_reset(c) == c = 0

\* BackoffTimer.__init__
BackoffTimerInit ==
    /\ bt_c = 0
    /\ bt_calls = <<>>

\* A call on the timer that leaves the counter at c.
BackoffTimer_call(op, c) ==
    /\ bt_calls' = Append(bt_calls, op)
    /\ bt_c' = c

Timer_failure ==
    /\ UNCHANGED timerOthers
    /\ Len(bt_calls) < MaxTimerCalls
    /\ BackoffTimer_call("failure", BackoffTimer_failure(bt_c))

Timer_success ==
    /\ UNCHANGED timerOthers
    /\ Len(bt_calls) < MaxTimerCalls
    /\ BackoffTimer_call("success", BackoffTimer_success(bt_c))

Timer_reset ==
    /\ UNCHANGED timerOthers
    /\ Len(bt_calls) < MaxTimerCalls
    /\ BackoffTimer_call("reset", BackoffTimer_reset(bt_c))

BackoffTimerNext ==
    \/ Timer_failure
    \/ Timer_success
    \/ Timer_reset

(***************************************************************************)
(* gnsq/consumer.py                                                        *)
(***************************************************************************)

\* The nsqd addresses the consumer can meet: 1..NumAddrs.  The first NumStatic
\* are configured (nsqd_tcp_addresses), all of them can be returned by lookupd.
NumAddrs == 2
NumStatic == 1
\* The configured max_in_flight is drawn from 1..MaxMaxInFlight.
MaxMaxInFlight == 3
\* BackoffTimer.c of a session's message backoff.
MaxBackoffCount == 2
\* Pending gevent.spawn_later(interval, _start_throttled, conn) per address.
MaxThrottleTimers == 1
\* The configured max_backoff_duration is drawn from 0..MaxBackoffDuration.
MaxBackoffDuration == 1
\* Sessions the consumer opens, over all addresses.
MaxConns == 3
\* Messages the brokers send, over all sessions.
MaxMessages == 2

Addrs == 1..NumAddrs

\* Consumer.nsqd_tcp_addresses
StaticAddrs == 1..NumStatic

\* An address that is not a key of Consumer._connections.
ABSENT == "ABSENT"

RECURSIVE SumOver(_, _)
SumOver(f, S) ==
    IF S = {} THEN 0
    ELSE LET a == CHOOSE x \in S : TRUE
         IN  f[a] + SumOver(f, S \ {a})

Min(x, y) == IF x <= y THEN x ELSE y

\* The keys of Consumer._connections.
Sessions == {a \in Addrs : connections[a] # ABSENT}

\* Consumer.total_ready_count
total_ready_count == SumOver(ready_count, Sessions)

\* Consumer.total_in_flight
total_in_flight == SumOver(in_flight, Sessions)

NoTarget == [a \in Addrs |-> 0]

NoConsEvent == [op |-> "none", a |-> 0, running |-> FALSE]

\* A run of _redistribute_ready_state has returned; running is is_running at
\* its test.
RedistributedEvent(running) ==
    [op |-> "_redistribute_ready_state", a |-> 0, running |-> running]

\* handle_connection_failure ran for address a; running is is_running at its
\* test.
ConnFailureEvent(a, running) ==
    [op |-> "handle_connection_failure", a |-> a, running |-> running]

\* start() was called and ended with `res`: "ok", the RuntimeError of a
\* consumer without receivers, or the warning that it was already started.
StartEvent(res) ==
    [op |-> "start", res |-> res]

\* close() was called; running is is_running at its test.
CloseEvent(running) ==
    [op |-> "close", a |-> 0, running |-> running]

\* handle_requeue ran for a message of address a that was requeued with
\* backoff.
RequeueEvent(a) ==
    [op |-> "handle_requeue", a |-> a, running |-> cons_state = RUNNING]

ConsumerInit ==
    /\ cons_state = INIT
    /\ max_in_flight \in 1..MaxMaxInFlight
    /\ max_backoff_duration \in 0..MaxBackoffDuration
    /\ on_close_sent = 0
    /\ connections = [a \in Addrs |-> ABSENT]
    /\ conn_phase = [a \in Addrs |-> "none"]
    /\ conn_caller = [a \in Addrs |-> "none"]
    /\ conn_state = [a \in Addrs |-> INIT]
    /\ ready_count = [a \in Addrs |-> 0]
    /\ in_flight = [a \in Addrs |-> 0]
    /\ broker_rdy = [a \in Addrs |-> 0]
    /\ message_backoffs = [a \in Addrs |-> 0]
    /\ throttle_timers = [a \in Addrs |-> 0]
    /\ reconnect_timers = [a \in Addrs |-> 0]
    /\ start_pc = "idle"
    /\ start_todo = {}
    /\ lookupd_pc = "unspawned"
    /\ rd_pc = "unspawned"
    /\ rd_event = FALSE
    /\ rd_cur = 0
    /\ rd_todo = {}
    /\ rd_target = NoTarget
    /\ conns_built = 0
    /\ msgs_delivered = 0
    /\ cons_last = NoConsEvent

\* _get_unsaturated_ready_state / _get_saturated_ready_state: the test that
\* gives a session RDY 0.
\* Faulty variant: no session is treated as backing off.
InBackoff_never(state) ==
    FALSE

InBackoff(state) ==
    state = BACKOFF

\* _get_saturated_ready_state: the states that get RDY 1 whatever the budget.
\* Faulty variant: THROTTLED sessions share the budget like RUNNING ones.
IsProbing_init_only(state) ==
    state = INIT

IsProbing(state) ==
    state \in {INIT, THROTTLED}

\* _get_saturated_ready_state: ready_available.
\* Faulty variant: the RDY already given out is not subtracted.
ReadyAvailable_all(mif, assigned) ==
    mif

ReadyAvailable(mif, assigned) ==
    mif - assigned

\* _get_unsaturated_ready_state for the connection map conns over the keys
\* dom (ABSENT: no session) and max_in_flight mif: random.shuffle picks which
\* active sessions get the RDY 1.  Keys without a session are given 0.
get_unsaturated_ready_state(dom, conns, mif) ==
    LET sessions == {a \in dom : conns[a] # ABSENT}
        active   == {a \in sessions : ~InBackoff(conns[a])}
        n        == Min(mif, Cardinality(active))
    IN  { [a \in dom |-> IF a \in ones THEN 1 ELSE 0] :
            ones \in {X \in SUBSET active : Cardinality(X) = n} }

\* _get_saturated_ready_state: late is the set of keys whose last_message is
\* older than low_ready_idle_timeout, looked at for the sessions that are
\* neither BACKOFF nor INIT nor THROTTLED; random.sample picks which active
\* sessions get the remainder.
get_saturated_ready_state(dom, conns, mif, late) ==
    LET sessions == {a \in dom : conns[a] # ABSENT}
        backoff  == {a \in sessions : InBackoff(conns[a])}
        probing  == {a \in sessions \ backoff : IsProbing(conns[a])}
        running  == sessions \ (backoff \cup probing)
        ones     == probing \cup (running \cap late)
        active   == running \ late
        avail    == ReadyAvailable(mif, Cardinality(ones))
        n        == Cardinality(active)
    IN  IF active = {}
        THEN { [a \in dom |-> IF a \in ones THEN 1 ELSE 0] }
        ELSE { [a \in dom |->
                  IF a \in ones THEN 1
                  ELSE IF a \in active
                  THEN (avail \div n) + (IF a \in extra THEN 1 ELSE 0)
                  ELSE 0] :
                extra \in {X \in SUBSET active : Cardinality(X) = avail % n} }

UnsaturatedReadyStates ==
    get_unsaturated_ready_state(Addrs, connections, max_in_flight)

SaturatedReadyStates ==
    UNION { get_saturated_ready_state(Addrs, connections, max_in_flight, late) :
              late \in SUBSET Sessions }

\* _redistribute_ready_state: the choice between the two regimes.
\* Faulty variant: the comparison is the wrong way round.
IsUnsaturated_reversed(n, mif) ==
    n < mif

IsUnsaturated(n, mif) ==
    n > mif

ReadyStates ==
    IF IsUnsaturated(Cardinality(Sessions), max_in_flight)
    THEN UnsaturatedReadyStates
    ELSE SaturatedReadyStates

\* connect_to_nsqd: `if conn in self._connections`, where sessions hash and
\* compare by address and port.
\* Faulty variant: the map is never found to hold the address.
AlreadyConnected_never(conns, a) ==
    FALSE

AlreadyConnected(conns, a) ==
    conns[a] # ABSENT

\* connect_to_nsqd was called for address a by a timer or the lookupd
\* poller; found tells whether the map held the address.
ConnectEvent(a, found) ==
    [op |-> "connect_to_nsqd", a |-> a, running |-> cons_state = RUNNING,
     found |-> found]

\* f with the session start() opens next, if it opens one: nxt is its address,
\* 0 for none.
Begin(f, nxt, v) ==
    IF nxt = 0 THEN f ELSE [f EXCEPT ![nxt] = v]

\* The addresses of todo for which connect_to_nsqd opens a session, given the
\* map conns: for the others it returns at once.  Addresses beyond the
\* bound on the sessions opened are dropped.
Connectable(running, conns, todo) ==
    IF running /\ conns_built < MaxConns
    THEN {b \in todo : ~AlreadyConnected(conns, b)}
    ELSE {}

\* start() runs on from the call it was blocked in to the next one that
\* blocks: the connect() of the next session it opens (nxt), the lookup of
\* query_lookupd once query_nsqd is through, or none, and then the pollers
\* are spawned and start() is done.  phase is the loop it is in, todo the
\* addresses that loop has still to visit.
StartResume(phase, running, conns, todo, nxt) ==
    IF Connectable(running, conns, todo) # {}
    THEN /\ nxt \in Connectable(running, conns, todo)
         /\ start_pc' = phase
         /\ start_todo' = todo \ {nxt}
         /\ UNCHANGED <<lookupd_pc, rd_pc>>
    ELSE /\ nxt = 0
         /\ start_todo' = {}
         /\ IF phase = "query_nsqd"
            THEN /\ start_pc' = "lookup"
                 /\ UNCHANGED <<lookupd_pc, rd_pc>>
            ELSE /\ start_pc' = "done"
                 /\ lookupd_pc' = "sleep"
                 /\ rd_pc' = "wait"

\* connect_to_nsqd for address a returns to its caller, leaving the map
\* conns; when the caller is start(), start() runs on and opens nxt.
ReturnsToCaller(a, conns, nxt) ==
    /\ conns_built' = conns_built + (IF nxt = 0 THEN 0 ELSE 1)
    /\ IF conn_caller[a] = "start"
       THEN StartResume(start_pc, cons_state = RUNNING, conns, start_todo, nxt)
       ELSE /\ nxt = 0
            /\ UNCHANGED <<start_pc, start_todo, lookupd_pc, rd_pc>>

\* handle_connection_failure(conn) for the session of address a: the key is
\* deleted, the stream closed, and while the consumer is running a
\* redistribution is requested and, for a configured address, a reconnection
\* is scheduled.  Whoever called connect_to_nsqd for it goes on.  The removed
\* object stays in the ready_state of a redistribution in progress, where
\* ready() on its closed stream raises the NSQSocketError the loop swallows.
\* Faulty variant: every address is reconnected.
Reconnects_always(a) ==
    TRUE

Reconnects(a) ==
    a \in StaticAddrs

handle_connection_failure(a, nxt) ==
    /\ connections' = Begin([connections EXCEPT ![a] = ABSENT], nxt, INIT)
    /\ conn_phase' = Begin([conn_phase EXCEPT ![a] = "none"], nxt, "connecting")
    /\ conn_caller' = Begin([conn_caller EXCEPT ![a] = "none"], nxt, "start")
    /\ conn_state' = [conn_state EXCEPT ![a] = INIT]
    /\ ready_count' = [ready_count EXCEPT ![a] = 0]
    /\ in_flight' = [in_flight EXCEPT ![a] = 0]
    /\ broker_rdy' = [broker_rdy EXCEPT ![a] = 0]
    /\ rd_todo' = rd_todo \ {a}
    /\ rd_target' = [rd_target EXCEPT ![a] = 0]
    /\ rd_cur' = IF rd_cur = a THEN 0 ELSE rd_cur
    /\ rd_event' = (rd_event \/ cons_state = RUNNING)
    /\ reconnect_timers' =
          IF cons_state = RUNNING /\ Reconnects(a)
          THEN [reconnect_timers EXCEPT ![a] = @ + 1]
          ELSE reconnect_timers
    /\ cons_last' = ConnFailureEvent(a, cons_state = RUNNING)
    /\ ReturnsToCaller(a, [connections EXCEPT ![a] = ABSENT], nxt)

\* What handle_connection_failure and its caller's continuation leave alone.
failureUnchanged ==
    <<cons_state, consFixed, message_backoffs, throttle_timers, msgs_delivered>>

\* connect_to_nsqd(address, port) called by `caller`, up to the point where
\* conn.connect() blocks.
connect_to_nsqd(a, caller) ==
    IF cons_state = RUNNING /\ ~AlreadyConnected(connections, a)
    THEN /\ conns_built < MaxConns
         /\ conns_built' = conns_built + 1
         /\ connections' = [connections EXCEPT ![a] = INIT]
         /\ conn_phase' = [conn_phase EXCEPT ![a] = "connecting"]
         /\ conn_caller' = [conn_caller EXCEPT ![a] = caller]
    ELSE UNCHANGED <<connections, conn_phase, conn_caller, conns_built>>

\* start(): the test on the state.
\* Faulty variant: a closed consumer is started again.
start_runs_unless_running ==
    cons_state # RUNNING

start_runs ==
    cons_state = INIT

\* start(), up to its first call that blocks; receivers tells whether a
\* receiver is connected to on_message.  Outside INIT the call logs a warning,
\* and in INIT without a receiver it raises RuntimeError.
Consumer_start ==
    /\ UNCHANGED consOthers
    /\ UNCHANGED <<consFixed, conn_state, ready_count, in_flight, broker_rdy,
                   message_backoffs, throttle_timers, reconnect_timers, rd_event,
                   rd_cur, rd_todo, rd_target, msgs_delivered>>
    /\ \E receivers \in BOOLEAN :
        IF ~start_runs
        THEN /\ cons_last' = StartEvent("already started")
             /\ UNCHANGED <<cons_state, start_pc, start_todo, lookupd_pc, rd_pc,
                            connections, conn_phase, conn_caller, conns_built>>
        ELSE IF ~receivers
        THEN /\ cons_last' = StartEvent("RuntimeError")
             /\ UNCHANGED <<cons_state, start_pc, start_todo, lookupd_pc, rd_pc,
                            connections, conn_phase, conn_caller, conns_built>>
        ELSE /\ cons_state' = RUNNING
             /\ cons_last' = StartEvent("ok")
             /\ \E nxt \in Addrs \cup {0} :
                  /\ StartResume("query_nsqd", TRUE, connections, StaticAddrs, nxt)
                  /\ connections' = Begin(connections, nxt, INIT)
                  /\ conn_phase' = Begin(conn_phase, nxt, "connecting")
                  /\ conn_caller' = Begin(conn_caller, nxt, "start")
                  /\ conns_built' = conns_built + (IF nxt = 0 THEN 0 ELSE 1)

\* The lookup start() was blocked in (query_lookupd) returns a set of
\* producers, none when it fails, and start() runs on.
Consumer_start_lookup ==
    /\ UNCHANGED consOthers
    /\ start_pc = "lookup"
    /\ cons_last' = NoConsEvent
    /\ UNCHANGED <<cons_state, consFixed, conn_state, ready_count, in_flight,
                   broker_rdy, message_backoffs, throttle_timers, reconnect_timers,
                   rd_event, rd_cur, rd_todo, rd_target, msgs_delivered>>
    /\ \E producers \in SUBSET Addrs, nxt \in Addrs \cup {0} :
          /\ StartResume("query_lookupd", cons_state = RUNNING, connections, producers, nxt)
          /\ connections' = Begin(connections, nxt, INIT)
          /\ conn_phase' = Begin(conn_phase, nxt, "connecting")
          /\ conn_caller' = Begin(conn_caller, nxt, "start")
          /\ conns_built' = conns_built + (IF nxt = 0 THEN 0 ELSE 1)

\* connect_to_nsqd for address a, from conn.connect() returning or raising to
\* the block in identify(), and from there to handle_connection_success or
\* handle_connection_failure.
Consumer_connect_step(a) ==
    /\ UNCHANGED consOthers
    /\ \/ /\ conn_phase[a] = "connecting"
          /\ \/ \E nxt \in Addrs \cup {0} :
                   /\ handle_connection_failure(a, nxt)
                   /\ UNCHANGED failureUnchanged
             \/ /\ conn_phase' = [conn_phase EXCEPT ![a] = "handshake"]
                /\ conn_state' = [conn_state EXCEPT ![a] = CONNECTED]
                /\ cons_last' = NoConsEvent
                /\ UNCHANGED <<cons_state, consFixed, connections, conn_caller,
                               ready_count, in_flight, broker_rdy, message_backoffs,
                               throttle_timers, reconnect_timers, start_pc, start_todo,
                               lookupd_pc, rd_pc, rd_event, rd_cur,
                               rd_todo, rd_target, conns_built, msgs_delivered>>
       \/ /\ conn_phase[a] = "handshake"
          /\ \/ \* identify() or subscribe() raised, or the consumer was closed
                \E nxt \in Addrs \cup {0} :
                   /\ handle_connection_failure(a, nxt)
                   /\ UNCHANGED failureUnchanged
             \/ \* handle_connection_success
                /\ conn_state[a] = CONNECTED
                /\ cons_state = RUNNING
                /\ rd_event' = TRUE
                /\ cons_last' = NoConsEvent
                /\ UNCHANGED <<cons_state, consFixed, conn_state, ready_count,
                               in_flight, broker_rdy, message_backoffs, throttle_timers,
                               reconnect_timers, rd_cur, rd_todo, rd_target,
                               msgs_delivered>>
                /\ \E nxt \in Addrs \cup {0} :
                     /\ ReturnsToCaller(a, connections, nxt)
                     /\ connections' = Begin(connections, nxt, INIT)
                     /\ conn_phase' = Begin([conn_phase EXCEPT ![a] = "listening"],
                                            nxt, "connecting")
                     /\ conn_caller' = Begin([conn_caller EXCEPT ![a] = "none"],
                                             nxt, "start")

\* The timer handle_connection_failure set for address a fires.
Consumer_reconnect(a) ==
    /\ UNCHANGED consOthers
    /\ reconnect_timers[a] > 0
    /\ reconnect_timers' = [reconnect_timers EXCEPT ![a] = @ - 1]
    /\ connect_to_nsqd(a, "timer")
    /\ cons_last' = ConnectEvent(a, AlreadyConnected(connections, a))
    /\ UNCHANGED <<cons_state, consFixed, conn_state, ready_count, in_flight,
                   broker_rdy, message_backoffs, throttle_timers, start_pc, start_todo,
                   lookupd_pc, rd_pc, rd_event, rd_cur, rd_todo,
                   rd_target, msgs_delivered>>

\* _poll_lookupd: the poller calls connect_to_nsqd for the producers its polls
\* return, one after the other; over the polls that is any sequence of
\* addresses.
Consumer_poll_lookupd(a) ==
    /\ UNCHANGED consOthers
    /\ lookupd_pc = "sleep"
    /\ \A b \in Addrs : conn_caller[b] # "lookupd"
    /\ connect_to_nsqd(a, "lookupd")
    /\ cons_last' = ConnectEvent(a, AlreadyConnected(connections, a))
    /\ UNCHANGED <<cons_state, consFixed, conn_state, ready_count, in_flight,
                   broker_rdy, message_backoffs, throttle_timers, reconnect_timers,
                   start_pc, start_todo, lookupd_pc, rd_pc, rd_event, rd_cur, rd_todo,
                   rd_target, msgs_delivered>>

\* _listen for the session of address a ends: the read raised, a fatal ERROR
\* frame closed the stream, or the stream was closed under the reader.
Consumer_listen_ends(a) ==
    /\ UNCHANGED consOthers
    /\ conn_phase[a] = "listening"
    /\ handle_connection_failure(a, 0)
    /\ UNCHANGED failureUnchanged

\* The broker of address a sends a message, which it does only while the
\* session's in-flight count is below the RDY it last received:
\* NsqdTCPClient.handle_message counts it in flight.
Consumer_deliver(a) ==
    /\ UNCHANGED consOthers
    /\ conn_phase[a] = "listening"
    /\ conn_state[a] = CONNECTED
    /\ in_flight[a] < broker_rdy[a]
    /\ msgs_delivered < MaxMessages
    /\ msgs_delivered' = msgs_delivered + 1
    /\ in_flight' = [in_flight EXCEPT ![a] = @ + 1]
    /\ cons_last' = NoConsEvent
    /\ UNCHANGED <<cons_state, consFixed, connections, conn_phase, conn_caller,
                   conn_state, ready_count, broker_rdy, message_backoffs, throttle_timers,
                   reconnect_timers, start_pc, start_todo, lookupd_pc, rd_pc,
                   rd_event, rd_cur, rd_todo, rd_target, conns_built>>

\* _finish_message: the test that lets the backoff machinery run.
\* Faulty variant: it runs whatever max_backoff_duration is.
BackoffEnabled_always ==
    TRUE

BackoffEnabled ==
    max_backoff_duration # 0

\* _complete_backoff: the test that ends the backoff.
\* Faulty variant: a successful probe always ends it.
CompletesBackoff_always(c) ==
    TRUE

CompletesBackoff(c) ==
    BackoffTimer_is_reset(c)

\* _finish_message(conn, backoff) for a session whose state under its key is
\* `state` and whose message backoff counter is c, with _start_backoff and
\* _complete_backoff: the new state and counter, whether a _start_throttled
\* timer is set and whether a redistribution is requested.
finish_message(state, c, backoff) ==
    LET same == [state |-> state, c |-> c, timer |-> FALSE, event |-> FALSE]
    IN  IF ~BackoffEnabled THEN same
        ELSE IF state = BACKOFF THEN same
        ELSE IF backoff
        THEN [state |-> BACKOFF, c |-> BackoffTimer_failure(c), timer |-> TRUE,
              event |-> TRUE]
        ELSE IF state = THROTTLED
        THEN IF CompletesBackoff(BackoffTimer_success(c))
             THEN [state |-> RUNNING, c |-> BackoffTimer_success(c), timer |-> FALSE,
                   event |-> TRUE]
             ELSE [state |-> BACKOFF, c |-> BackoffTimer_success(c), timer |-> TRUE,
                   event |-> TRUE]
        ELSE IF state = INIT
        THEN [state |-> RUNNING, c |-> c, timer |-> FALSE, event |-> TRUE]
        ELSE same

\* A message of the session of address a is finished (backoff FALSE) or
\* requeued: NsqdTCPClient.finish / requeue send the command, and when that
\* went out count the message out and signal the consumer, whose handle_finish /
\* handle_requeue run _finish_message.  A failing send closes the stream.
Consumer_respond(a) ==
    /\ UNCHANGED consOthers
    /\ conn_phase[a] = "listening"
    /\ conn_state[a] = CONNECTED
    /\ in_flight[a] > 0
    /\ UNCHANGED <<cons_state, consFixed, conn_phase, conn_caller, ready_count,
                   broker_rdy, reconnect_timers, start_pc, start_todo, lookupd_pc,
                   rd_pc, rd_cur, rd_todo, rd_target, conns_built, msgs_delivered>>
    /\ \/ /\ conn_state' = [conn_state EXCEPT ![a] = close_stream_state(@)]
          /\ cons_last' = NoConsEvent
          /\ UNCHANGED <<connections, in_flight, message_backoffs, throttle_timers,
                         rd_event>>
       \/ \E backoff \in BOOLEAN :
            LET r == finish_message(connections[a], message_backoffs[a], backoff) IN
            /\ r.c <= MaxBackoffCount
            /\ r.timer => throttle_timers[a] < MaxThrottleTimers
            /\ in_flight' = [in_flight EXCEPT ![a] = @ - 1]
            /\ connections' = [connections EXCEPT ![a] = r.state]
            /\ message_backoffs' = [message_backoffs EXCEPT ![a] = r.c]
            /\ throttle_timers' = [throttle_timers EXCEPT ![a] =
                                      IF r.timer THEN @ + 1 ELSE @]
            /\ rd_event' = (rd_event \/ r.event)
            /\ cons_last' = IF backoff THEN RequeueEvent(a) ELSE NoConsEvent
            /\ UNCHANGED conn_state

\* _start_throttled: the test on the state found under the session's key.
\* Faulty variant: the session is throttled whatever its state.
StartsThrottled_always(state) ==
    state # ABSENT

StartsThrottled(state) ==
    state = BACKOFF

\* _start_throttled(conn): a timer set by _start_backoff fires.
Consumer_start_throttled(a) ==
    /\ UNCHANGED consOthers
    /\ throttle_timers[a] > 0
    /\ throttle_timers' = [throttle_timers EXCEPT ![a] = @ - 1]
    /\ IF StartsThrottled(connections[a])
       THEN /\ connections' = [connections EXCEPT ![a] = THROTTLED]
            /\ rd_event' = TRUE
       ELSE UNCHANGED <<connections, rd_event>>
    /\ cons_last' = NoConsEvent
    /\ UNCHANGED <<cons_state, consFixed, conn_phase, conn_caller, conn_state,
                   ready_count, in_flight, broker_rdy, message_backoffs, reconnect_timers,
                   start_pc, start_todo, lookupd_pc, rd_pc, rd_cur,
                   rd_todo, rd_target, conns_built, msgs_delivered>>

\* The loop of _redistribute_ready_state over ready_state, from where it
\* stands to the next ready() that blocks in send(), or to its end.  ready()
\* sets ready_count before it sends; on a session that is still in
\* conn.connect() there is no stream yet and the AttributeError ends _poll_ready.
redistribute_loop(target, todo, running) ==
    LET pending == {a \in todo : ready_count[a] # target[a]} IN
    IF pending = {}
    THEN /\ rd_pc' = "wait"
         /\ rd_cur' = 0
         /\ rd_todo' = {}
         /\ rd_target' = NoTarget
         /\ cons_last' = RedistributedEvent(running)
         /\ UNCHANGED ready_count
    ELSE \E a \in pending :
         /\ ready_count' = [ready_count EXCEPT ![a] = target[a]]
         /\ cons_last' = NoConsEvent
         /\ IF conn_phase[a] = "connecting"
            THEN /\ rd_pc' = "dead"
                 /\ rd_cur' = 0
                 /\ rd_todo' = {}
                 /\ rd_target' = NoTarget
            ELSE /\ rd_pc' = "sending"
                 /\ rd_cur' = a
                 /\ rd_todo' = pending \ {a}
                 /\ rd_target' = [b \in Addrs |->
                                    IF b \in pending \ {a} THEN target[b] ELSE 0]

\* _poll_ready wakes, on the event or on its timeout, and runs
\* _redistribute_ready_state up to the first ready() that blocks.
Consumer_poll_ready ==
    /\ UNCHANGED consOthers
    /\ rd_pc = "wait"
    /\ rd_event' = FALSE
    /\ UNCHANGED <<cons_state, consFixed, connections, conn_phase, conn_caller,
                   conn_state, in_flight, broker_rdy, message_backoffs, throttle_timers,
                   reconnect_timers, start_pc, start_todo, lookupd_pc, conns_built,
                   msgs_delivered>>
    /\ IF cons_state # RUNNING
       THEN redistribute_loop(NoTarget, {}, FALSE)
       ELSE \E target \in ReadyStates : redistribute_loop(target, Sessions, TRUE)

\* The ready() _redistribute_ready_state was blocked in returns, or raises the
\* NSQSocketError the loop swallows after send() has closed the stream; the
\* loop goes on.
Consumer_ready_returns ==
    /\ UNCHANGED consOthers
    /\ rd_pc = "sending"
    /\ \/ /\ rd_cur # 0
          /\ conn_state[rd_cur] = CONNECTED
          /\ broker_rdy' = [broker_rdy EXCEPT ![rd_cur] = ready_count[rd_cur]]
          /\ UNCHANGED conn_state
       \/ /\ conn_state' = IF rd_cur = 0 THEN conn_state
                           ELSE [conn_state EXCEPT ![rd_cur] = close_stream_state(@)]
          /\ UNCHANGED broker_rdy
    /\ redistribute_loop(rd_target, rd_todo, TRUE)
    /\ UNCHANGED <<cons_state, consFixed, connections, conn_phase, conn_caller,
                   in_flight, message_backoffs, throttle_timers, reconnect_timers,
                   start_pc, start_todo, lookupd_pc, rd_event, conns_built, msgs_delivered>>

\* close(): the test that makes the call return at once.
\* Faulty variant: only a consumer that was never started is left alone.
close_returns_before_start_only ==
    cons_state = INIT

close_returns ==
    cons_state # RUNNING

\* close(): nothing unless the consumer is running; then the pollers are
\* killed, which leaves a connect_to_nsqd the lookupd poller was blocked in
\* unfinished, the stream of every session in the map is closed and on_close
\* is sent.
Consumer_close ==
    /\ UNCHANGED consOthers
    /\ UNCHANGED <<max_in_flight, max_backoff_duration, connections, ready_count,
                   in_flight, broker_rdy, message_backoffs, throttle_timers,
                   reconnect_timers, start_pc, start_todo, rd_event, conns_built,
                   msgs_delivered>>
    /\ cons_last' = CloseEvent(cons_state = RUNNING)
    /\ IF close_returns
       THEN UNCHANGED <<cons_state, on_close_sent, rd_pc, rd_cur, rd_todo, rd_target,
                        lookupd_pc, conn_phase, conn_caller, conn_state>>
       ELSE /\ cons_state' = CLOSED
            /\ rd_pc' = IF rd_pc \in {"wait", "sending"} THEN "killed" ELSE rd_pc
            /\ rd_cur' = 0
            /\ rd_todo' = {}
            /\ rd_target' = NoTarget
            /\ lookupd_pc' = IF lookupd_pc = "sleep" THEN "killed" ELSE lookupd_pc
            /\ conn_phase' = [a \in Addrs |->
                  IF conn_caller[a] = "lookupd" THEN "abandoned" ELSE conn_phase[a]]
            /\ conn_caller' = [a \in Addrs |->
                  IF conn_caller[a] = "lookupd" THEN "none" ELSE conn_caller[a]]
            /\ conn_state' = [a \in Addrs |->
                  IF a \in Sessions THEN close_stream_state(conn_state[a])
                  ELSE conn_state[a]]
            /\ on_close_sent' = on_close_sent + 1

ConsumerNext ==
    \/ Consumer_start
    \/ Consumer_start_lookup
    \/ \E a \in Addrs : Consumer_connect_step(a)
    \/ \E a \in Addrs : Consumer_reconnect(a)
    \/ \E a \in Addrs : Consumer_poll_lookupd(a)
    \/ \E a \in Addrs : Consumer_listen_ends(a)
    \/ \E a \in Addrs : Consumer_deliver(a)
    \/ \E a \in Addrs : Consumer_respond(a)
    \/ \E a \in Addrs : Consumer_start_throttled(a)
    \/ Consumer_poll_ready
    \/ Consumer_ready_returns
    \/ Consumer_close

(***************************************************************************)
(* gnsq/consumer.py: message dispatch                                      *)
(***************************************************************************)

\* Consumer.max_tries is drawn from 0..MaxTries, Message.attempts from
\* 1..MaxAttempts, Consumer.requeue_delay from 0..MaxRequeueDelay.
MaxTries == 2
MaxAttempts == 3
MaxRequeueDelay == 1

\* What a handler can raise: the requeue signal, another NSQException (a
\* second finish() on the message raises one), any other Exception.
HandlerErrors == {"NSQRequeueMessage", "NSQException", "Exception"}

\* NSQRequeueMessage.backoff
Hints == {"None", "True", "False"}

NoEnd == [how |-> "none", cls |-> "none", hint |-> "None", running |-> FALSE,
          async |-> FALSE, responded |-> FALSE]

DispatchInit ==
    /\ hm_running = TRUE
    /\ hm_max_tries \in 0..MaxTries
    /\ hm_attempts \in 1..MaxAttempts
    /\ hm_backoff_on_requeue \in BOOLEAN
    /\ hm_requeue_delay \in 0..MaxRequeueDelay
    /\ hm_pc = "received"
    /\ hm_async = FALSE
    /\ hm_responded = FALSE
    /\ hm_wire = <<>>
    /\ hm_sup = <<>>
    /\ hm_emitted = [on_giving_up |-> 0, on_exception |-> 0, on_message |-> 0]
    /\ hm_end = NoEnd

\* _handle_message: the test that gives up on a message.
\* Faulty variant: the message is given up at its max_tries-th attempt.
GivesUp_at_max_tries ==
    hm_max_tries # 0 /\ hm_attempts >= hm_max_tries

GivesUp ==
    hm_max_tries # 0 /\ hm_attempts > hm_max_tries

\* _handle_message: the three tests before the automatic finish.
\* Faulty variant: a message marked async is finished as well.
AutoFinishes_async_too ==
    hm_running /\ ~hm_responded

AutoFinishes ==
    hm_running /\ ~hm_async /\ ~hm_responded

\* handle_message: the two tests before the requeue.
\* Faulty variant: the test on is_running is missing.
AutoRequeues_when_closed ==
    ~hm_responded

AutoRequeues ==
    hm_running /\ ~hm_responded

\* handle_message: the except clauses around _handle_message.
\* Faulty variant: only NSQException is caught.
IsCaught_nsq_only(cls) ==
    cls \in {"NSQRequeueMessage", "NSQException"}

IsCaught(cls) ==
    cls \in {"NSQRequeueMessage", "NSQException", "Exception"}

\* handle_message: the backoff flag of the requeue.
RequeueBackoff(cls, hint) ==
    IF cls = "NSQRequeueMessage"
    THEN IF hint = "None" THEN hm_backoff_on_requeue ELSE hint = "True"
    ELSE TRUE

\* A command as NsqdTCPClient.finish / requeue hand it to send().
Command(cmd, delay, backoff, by) ==
    [cmd |-> cmd, delay |-> delay, backoff |-> backoff, by |-> by]

\* Message.finish() / Message.requeue() called by the consumer on a message
\* that has not been responded to: the flag is set, then the session's send()
\* writes the command (ok) or raises NSQSocketError.
SupervisorResponds(cmd, delay, backoff, ok) ==
    /\ hm_responded' = TRUE
    /\ hm_sup' = Append(hm_sup, [cmd |-> cmd, delay |-> delay, backoff |-> backoff,
                                 ok |-> ok])
    /\ hm_wire' = IF ok THEN Append(hm_wire, Command(cmd, delay, backoff, "consumer"))
                  ELSE hm_wire

Emit(name) == [hm_emitted EXCEPT ![name] = @ + 1]

\* handle_message up to the call of the handler: _handle_message gives up, or
\* sends on_message.  The NSQSocketError of a failed finish() lands in the
\* `except Exception` clause, after which the message counts as responded.
Consumer_handle_message ==
    /\ UNCHANGED dispOthers
    /\ hm_pc = "received"
    /\ UNCHANGED <<hm_running, hm_max_tries, hm_attempts, hm_backoff_on_requeue,
                   hm_requeue_delay, hm_async>>
    /\ IF GivesUp
       THEN \E ok \in BOOLEAN :
            /\ SupervisorResponds("FIN", 0, FALSE, ok)
            /\ hm_emitted' = [hm_emitted EXCEPT !.on_giving_up = @ + 1,
                                !.on_exception = IF ok THEN @ ELSE @ + 1]
            /\ hm_pc' = "returned"
            /\ hm_end' = [NoEnd EXCEPT !.how = "gave up", !.running = hm_running]
       ELSE /\ hm_emitted' = Emit("on_message")
            /\ hm_pc' = "handler"
            /\ UNCHANGED <<hm_responded, hm_wire, hm_sup, hm_end>>

\* The handler calls message.enable_async().
Handler_enable_async ==
    /\ UNCHANGED dispOthers
    /\ hm_pc = "handler"
    /\ ~hm_async
    /\ hm_async' = TRUE
    /\ UNCHANGED <<hm_running, hm_max_tries, hm_attempts, hm_backoff_on_requeue,
                   hm_requeue_delay, hm_pc, hm_responded, hm_wire, hm_sup,
                   hm_emitted, hm_end>>

\* The handler, or for an async message whoever it passed the message to,
\* calls message.finish() or message.requeue(time_ms, backoff).
Handler_responds ==
    /\ UNCHANGED dispOthers
    /\ hm_pc = "handler" \/ (hm_pc = "returned" /\ hm_async)
    /\ ~hm_responded
    /\ hm_responded' = TRUE
    /\ \E cmd \in {"FIN", "REQ"}, delay \in 0..MaxRequeueDelay, backoff \in BOOLEAN,
          ok \in BOOLEAN :
        /\ cmd = "FIN" => (delay = 0 /\ ~backoff)
        /\ hm_wire' = IF ok THEN Append(hm_wire, Command(cmd, delay, backoff, "handler"))
                      ELSE hm_wire
    /\ UNCHANGED <<hm_running, hm_max_tries, hm_attempts, hm_backoff_on_requeue,
                   hm_requeue_delay, hm_pc, hm_async, hm_sup, hm_emitted, hm_end>>

\* What the handler leaves when it ends.
HandlerEnd(how, cls, hint) ==
    [how |-> how, cls |-> cls, hint |-> hint, running |-> hm_running,
     async |-> hm_async, responded |-> hm_responded]

\* The handler returns: the rest of _handle_message.  The NSQSocketError of a
\* failed finish() lands in the `except Exception` clause of handle_message.
Handler_returns ==
    /\ UNCHANGED dispOthers
    /\ hm_pc = "handler"
    /\ hm_pc' = "returned"
    /\ hm_end' = HandlerEnd("return", "none", "None")
    /\ UNCHANGED <<hm_running, hm_max_tries, hm_attempts, hm_backoff_on_requeue,
                   hm_requeue_delay, hm_async>>
    /\ IF AutoFinishes
       THEN \E ok \in BOOLEAN :
            /\ SupervisorResponds("FIN", 0, FALSE, ok)
            /\ hm_emitted' = IF ok THEN hm_emitted ELSE Emit("on_exception")
       ELSE UNCHANGED <<hm_responded, hm_wire, hm_sup, hm_emitted>>

\* The handler raises: the except clauses of handle_message and what follows
\* them.  The NSQSocketError of a failed requeue() is logged.
Handler_raises ==
    /\ UNCHANGED dispOthers
    /\ hm_pc = "handler"
    /\ UNCHANGED <<hm_running, hm_max_tries, hm_attempts, hm_backoff_on_requeue,
                   hm_requeue_delay, hm_async>>
    /\ \E cls \in HandlerErrors, hint \in Hints :
        /\ cls # "NSQRequeueMessage" => hint = "None"
        /\ hm_end' = HandlerEnd("raise", cls, hint)
        /\ IF ~IsCaught(cls)
           THEN /\ hm_pc' = "raised"
                /\ UNCHANGED <<hm_responded, hm_wire, hm_sup, hm_emitted>>
           ELSE /\ hm_pc' = "returned"
                /\ hm_emitted' = IF cls = "NSQRequeueMessage" THEN hm_emitted
                                 ELSE Emit("on_exception")
                /\ IF AutoRequeues
                   THEN \E ok \in BOOLEAN :
                           SupervisorResponds("REQ", hm_requeue_delay,
                                              RequeueBackoff(cls, hint), ok)
                   ELSE UNCHANGED <<hm_responded, hm_wire, hm_sup>>

\* Consumer.close() is called while the message is with the reader or with
\* the handler.
Dispatch_close ==
    /\ UNCHANGED dispOthers
    /\ hm_pc \in {"received", "handler"}
    /\ hm_running
    /\ hm_running' = FALSE
    /\ UNCHANGED <<hm_max_tries, hm_attempts, hm_backoff_on_requeue, hm_requeue_delay,
                   hm_pc, hm_async, hm_responded, hm_wire, hm_sup, hm_emitted, hm_end>>

DispatchNext ==
    \/ Consumer_handle_message
    \/ Handler_enable_async
    \/ Handler_responds
    \/ Handler_returns
    \/ Handler_raises
    \/ Dispatch_close

(***************************************************************************)
(* gnsq/consumer.py: the sessions of one configured address                *)
(***************************************************************************)

\* BackoffTimer.c of the address's connection backoff and message backoff.
MaxSessionBackoff == 3
\* Pending spawn_later calls of either kind.
MaxSessionTimers == 2
\* Runs of _start_backoff, over all sessions of the address.
MaxSessionEpisodes == 3

NoSessionEvent == [op |-> "none", pre |-> ABSENT, c |-> 0, backoff |-> FALSE]

\* _start_throttled ran on the timer that backoff episode e had set.
ThrottleEvent(e) ==
    [op |-> "_start_throttled", pre |-> ss_conn, c |-> ss_message_backoff,
     backoff |-> FALSE, episode |-> e]

\* What a handler found: the state under the session's key and the counter of
\* the timer it is about to use.
SessionEvent(op, c, backoff) ==
    [op |-> op, pre |-> ss_conn, c |-> c, backoff |-> backoff]

\* start() has set the consumer RUNNING and is in the conn.connect() of the
\* address's first session.
SessionInit ==
    /\ ss_running = TRUE
    /\ ss_conn = INIT
    /\ ss_phase = "connecting"
    /\ ss_connection_backoff = 0
    /\ ss_message_backoff = 0
    /\ ss_reconnects = 0
    /\ ss_throttles = {}
    /\ ss_episode = 0
    /\ ss_last = NoSessionEvent

\* connect_to_nsqd for the address, called by the timer of
\* handle_connection_failure or by query_lookupd, up to conn.connect().
Session_connect_to_nsqd ==
    /\ UNCHANGED sessOthers
    /\ \E timer \in BOOLEAN :
          /\ timer => ss_reconnects > 0
          /\ ss_reconnects' = IF timer THEN ss_reconnects - 1 ELSE ss_reconnects
          /\ ~timer => (ss_running /\ ss_conn = ABSENT)
    /\ IF ss_running /\ ss_conn = ABSENT
       THEN ss_conn' = INIT /\ ss_phase' = "connecting"
       ELSE UNCHANGED <<ss_conn, ss_phase>>
    /\ ss_last' = NoSessionEvent
    /\ UNCHANGED <<ss_running, ss_connection_backoff, ss_message_backoff, ss_throttles,
                   ss_episode>>

\* handle_connection_failure(conn): the key is deleted, and while the
\* consumer is running the connection backoff counts a failure and draws the
\* delay of the reconnection.
Session_connection_failure ==
    /\ ss_conn' = ABSENT
    /\ ss_phase' = "none"
    /\ ss_last' = SessionEvent("handle_connection_failure", ss_connection_backoff, FALSE)
    /\ IF ss_running
       THEN /\ ss_connection_backoff' = BackoffTimer_failure(ss_connection_backoff)
            /\ ss_reconnects' = ss_reconnects + 1
       ELSE UNCHANGED <<ss_connection_backoff, ss_reconnects>>
    /\ UNCHANGED <<ss_running, ss_message_backoff, ss_throttles, ss_episode>>

\* connect_to_nsqd from conn.connect() on, when connect, identify or
\* subscribe raises or the consumer was closed meanwhile.
Session_connect_fails ==
    /\ UNCHANGED sessOthers
    /\ ss_phase = "connecting"
    /\ ss_running => ss_connection_backoff < MaxSessionBackoff
    /\ ss_running => ss_reconnects < MaxSessionTimers
    /\ Session_connection_failure

\* connect_to_nsqd from conn.connect() on, when all three calls return and the
\* consumer is running: handle_connection_success.
Session_connect_succeeds ==
    /\ UNCHANGED sessOthers
    /\ ss_phase = "connecting"
    /\ ss_running
    /\ ss_phase' = "listening"
    /\ ss_connection_backoff' = BackoffTimer_success(ss_connection_backoff)
    /\ ss_last' = SessionEvent("handle_connection_success", ss_connection_backoff, FALSE)
    /\ UNCHANGED <<ss_running, ss_conn, ss_message_backoff, ss_reconnects, ss_throttles,
                   ss_episode>>

\* _listen: conn.listen() ends and handle_connection_failure runs.
Session_listen_ends ==
    /\ UNCHANGED sessOthers
    /\ ss_phase = "listening"
    /\ ss_running => ss_connection_backoff < MaxSessionBackoff
    /\ ss_running => ss_reconnects < MaxSessionTimers
    /\ Session_connection_failure

\* handle_finish / handle_requeue for a message of the session:
\* _finish_message(conn, backoff).
Session_finish_message ==
    /\ UNCHANGED sessOthers
    /\ ss_phase = "listening"
    /\ ss_running
    /\ \E backoff \in BOOLEAN :
          LET r == finish_message(ss_conn, ss_message_backoff, backoff) IN
          /\ r.c <= MaxSessionBackoff
          /\ r.timer => Cardinality(ss_throttles) < MaxSessionTimers
          /\ r.timer => ss_episode < MaxSessionEpisodes
          /\ ss_conn' = r.state
          /\ ss_message_backoff' = r.c
          /\ ss_episode' = IF r.timer THEN ss_episode + 1 ELSE ss_episode
          /\ ss_throttles' = IF r.timer THEN ss_throttles \cup {ss_episode + 1}
                             ELSE ss_throttles
          /\ ss_last' = SessionEvent("_finish_message", ss_message_backoff, backoff)
    /\ UNCHANGED <<ss_running, ss_phase, ss_connection_backoff, ss_reconnects>>

\* _start_throttled(conn): a timer set by _start_backoff fires.
Session_start_throttled ==
    /\ UNCHANGED sessOthers
    /\ \E e \in ss_throttles :
          /\ ss_throttles' = ss_throttles \ {e}
          /\ ss_last' = ThrottleEvent(e)
    /\ ss_conn' = IF StartsThrottled(ss_conn) THEN THROTTLED ELSE ss_conn
    /\ UNCHANGED <<ss_running, ss_phase, ss_connection_backoff, ss_message_backoff,
                   ss_reconnects, ss_episode>>

\* Consumer.close()
Session_close ==
    /\ UNCHANGED sessOthers
    /\ ss_running
    /\ ss_running' = FALSE
    /\ ss_last' = NoSessionEvent
    /\ UNCHANGED <<ss_conn, ss_phase, ss_connection_backoff, ss_message_backoff,
                   ss_reconnects, ss_throttles, ss_episode>>

SessionNext ==
    \/ Session_connect_to_nsqd
    \/ Session_connect_fails
    \/ Session_connect_succeeds
    \/ Session_listen_ends
    \/ Session_finish_message
    \/ Session_start_throttled
    \/ Session_close

(***************************************************************************)
(* gnsq/consumer.py: the RDY targets as a function of the connection map   *)
(*                                                                         *)
(* _redistribute_ready_state computes a target per session from the        *)
(* connection map, max_in_flight and the age of each session's last        *)
(* message.  The inputs are drawn at the start; each run of the            *)
(* computation leaves its result in rs_ready_state.                        *)
(***************************************************************************)

MaxReadyKeys == 3
MaxReadyInFlight == 4

\* The largest max_rdy_count a broker answers IDENTIFY with.
MaxNegotiated == 2

ReadyKeys == 1..MaxReadyKeys

ReadySessions == {a \in ReadyKeys : rs_connections[a] # ABSENT}

\* identify(): self.max_ready_count = data.get('max_rdy_count', ...), one value
\* per session; keys without a session have none (0).
max_ready_counts(dom, conns) ==
    { f \in [dom -> 0..MaxNegotiated] :
        \A a \in dom : (f[a] = 0) <=> (conns[a] = ABSENT) }

ReadyStateInit ==
    /\ rs_connections \in [ReadyKeys -> {ABSENT, INIT, RUNNING, BACKOFF, THROTTLED}]
    /\ rs_max_in_flight \in 1..MaxReadyInFlight
    /\ rs_max_ready_count \in max_ready_counts(ReadyKeys, rs_connections)
    /\ rs_late \in SUBSET {a \in ReadyKeys : rs_connections[a] # ABSENT}
    /\ rs_regime = "none"
    /\ rs_ready_state = [a \in ReadyKeys |-> 0]

\* _redistribute_ready_state with len(self._connections) > self.max_in_flight
Consumer_get_unsaturated_ready_state ==
    /\ UNCHANGED readyOthers
    /\ IsUnsaturated(Cardinality(ReadySessions), rs_max_in_flight)
    /\ rs_ready_state' \in
         get_unsaturated_ready_state(ReadyKeys, rs_connections, rs_max_in_flight)
    /\ rs_regime' = "unsaturated"
    /\ UNCHANGED <<rs_connections, rs_max_in_flight, rs_max_ready_count, rs_late>>

\* _redistribute_ready_state otherwise
Consumer_get_saturated_ready_state ==
    /\ UNCHANGED readyOthers
    /\ ~IsUnsaturated(Cardinality(ReadySessions), rs_max_in_flight)
    /\ rs_ready_state' \in
         get_saturated_ready_state(ReadyKeys, rs_connections, rs_max_in_flight, rs_late)
    /\ rs_regime' = "saturated"
    /\ UNCHANGED <<rs_connections, rs_max_in_flight, rs_max_ready_count, rs_late>>

ReadyStateNext ==
    \/ Consumer_get_unsaturated_ready_state
    \/ Consumer_get_saturated_ready_state

(***************************************************************************)
(* gnsq/nsqd.py: NsqdTCPClient.identify()                                  *)
(*                                                                         *)
(* One call on a connected session.  The options of the session are drawn  *)
(* at the start, the frames the broker answers with when they are read.    *)
(* id_log records the commands sent, the layers installed and the frames   *)
(* read, in order.                                                         *)
(***************************************************************************)

\* The frames read_response() can return to identify(), with the features a
\* JSON answer grants; "EOF" is a read that raises.
IdentifyKinds == {"OK", "ERROR", "MESSAGE", "BADJSON", "EOF"}

NoFeatures == [tls_v1 |-> FALSE, snappy |-> FALSE, deflate |-> FALSE,
               auth_required |-> FALSE]

Features == [tls_v1 : BOOLEAN, snappy : BOOLEAN, deflate : BOOLEAN,
             auth_required : BOOLEAN]

IdentifyResponses ==
    {[kind |-> k, data |-> NoFeatures] : k \in IdentifyKinds}
        \cup {[kind |-> "JSON", data |-> d] : d \in Features}

\* The frames check_ok() and auth() can read.
CheckFrames == {"OK", "ERROR", "MESSAGE", "OTHER", "EOF"}
AuthFrames == {"JSON", "ERROR", "BADJSON", "EOF"}

IdentifyInit ==
    /\ id_cfg \in [tls_v1 : BOOLEAN, snappy : BOOLEAN, deflate : BOOLEAN,
                   auth_secret : BOOLEAN]
    /\ id_data = [kind |-> "none", data |-> NoFeatures]
    /\ id_pc = "identify"
    /\ id_log = <<>>
    /\ id_layers = <<>>
    /\ id_closed = FALSE

\* identify(): what follows the upgrades.
AfterCompression(cfg, data) ==
    IF cfg.auth_secret /\ data.auth_required THEN "auth" ELSE "returned"

\* identify(): what follows upgrade_to_snappy().
\* Faulty variant: the test for DEFLATE is an `if`, not an `elif`.
AfterSnappy_deflate(cfg, data) ==
    IF cfg.deflate /\ data.deflate THEN "upgrade_to_defalte"
    ELSE AfterCompression(cfg, data)

AfterSnappy(cfg, data) ==
    AfterCompression(cfg, data)

\* identify(): what follows the TLS upgrade.
AfterTls(cfg, data) ==
    IF cfg.snappy /\ data.snappy THEN "upgrade_to_snappy"
    ELSE IF cfg.deflate /\ data.deflate THEN "upgrade_to_defalte"
    ELSE AfterCompression(cfg, data)

\* identify(): what follows a JSON answer.
AfterResponse(cfg, data) ==
    IF cfg.tls_v1 /\ data.tls_v1 THEN "upgrade_to_tls" ELSE AfterTls(cfg, data)

\* _read_response closes the stream when the read raises.
ReadCloses(frame) ==
    frame = "EOF"

\* identify(): IDENTIFY is sent and the answer read.  An error frame is
\* raised, 'OK' ends the call, an answer that is no JSON closes the stream.
NsqdTCPClient_identify ==
    /\ UNCHANGED identOthers
    /\ id_pc = "identify"
    /\ \E r \in IdentifyResponses :
        /\ id_data' = r
        /\ id_log' = id_log \o <<"IDENTIFY", r.kind>>
        /\ id_pc' = CASE r.kind = "OK" -> "returned"
                      [] r.kind = "JSON" -> AfterResponse(id_cfg, r.data)
                      [] OTHER -> "raised"
        /\ id_closed' = (ReadCloses(r.kind) \/ r.kind = "BADJSON")
    /\ UNCHANGED <<id_cfg, id_layers>>

\* upgrade_to_*(): the layer is installed and check_ok() reads one frame,
\* which must be the response 'OK'.
Upgrade(layer, next) ==
    \E frame \in CheckFrames :
        /\ id_layers' = Append(id_layers, layer)
        /\ id_log' = id_log \o <<layer, frame>>
        /\ id_pc' = IF frame = "OK" THEN next ELSE "raised"
        /\ id_closed' = ReadCloses(frame)
        /\ UNCHANGED <<id_cfg, id_data>>

NsqdTCPClient_upgrade_to_tls ==
    /\ UNCHANGED identOthers
    /\ id_pc = "upgrade_to_tls"
    /\ Upgrade("tls", AfterTls(id_cfg, id_data.data))

NsqdTCPClient_upgrade_to_snappy ==
    /\ UNCHANGED identOthers
    /\ id_pc = "upgrade_to_snappy"
    /\ Upgrade("snappy", AfterSnappy(id_cfg, id_data.data))

NsqdTCPClient_upgrade_to_defalte ==
    /\ UNCHANGED identOthers
    /\ id_pc = "upgrade_to_defalte"
    /\ Upgrade("deflate", AfterCompression(id_cfg, id_data.data))

\* auth(): AUTH is sent and the answer read.
NsqdTCPClient_auth ==
    /\ UNCHANGED identOthers
    /\ id_pc = "auth"
    /\ \E frame \in AuthFrames :
        /\ id_log' = id_log \o <<"AUTH", frame>>
        /\ id_pc' = IF frame = "JSON" THEN "returned" ELSE "raised"
        /\ id_closed' = (ReadCloses(frame) \/ frame = "BADJSON")
    /\ UNCHANGED <<id_cfg, id_data, id_layers>>

IdentifyNext ==
    \/ NsqdTCPClient_identify
    \/ NsqdTCPClient_upgrade_to_tls
    \/ NsqdTCPClient_upgrade_to_snappy
    \/ NsqdTCPClient_upgrade_to_defalte
    \/ NsqdTCPClient_auth

(***************************************************************************)
(* Specifications                                                          *)
(***************************************************************************)

AllInit ==
    /\ MessageInit
    /\ NsqdInit
    /\ ProducerInit
    /\ ConsumerInit
    /\ DispatchInit
    /\ BackoffTimerInit
    /\ SessionInit
    /\ ReadyStateInit
    /\ IdentifyInit

\* The configuration of the consumer, fixed where the consumer is not the
\* machine under study: the defaults of Consumer.__init__ for max_in_flight,
\* requeue_delay and backoff_on_requeue, no limit on the attempts.
ConsumerDefaults ==
    /\ max_in_flight = 1
    /\ max_backoff_duration = MaxBackoffDuration

DispatchDefaults ==
    /\ hm_max_tries = 0
    /\ hm_attempts = 1
    /\ hm_backoff_on_requeue = TRUE
    /\ hm_requeue_delay = 0

\* No session and nothing to compute, where the RDY targets are not the
\* function under study.
ReadyStateDefaults ==
    /\ rs_connections = [a \in ReadyKeys |-> ABSENT]
    /\ rs_max_in_flight = 1
    /\ rs_late = {}
    /\ rs_max_ready_count = [a \in ReadyKeys |-> 0]

\* The defaults of NsqdTCPClient.__init__: no TLS, no compression, no secret.
IdentifyDefaults ==
    id_cfg = [tls_v1 |-> FALSE, snappy |-> FALSE, deflate |-> FALSE,
              auth_secret |-> FALSE]

\* Everything but the machine under study at its defaults.
OtherDefaults == ReadyStateDefaults /\ IdentifyDefaults

DefaultsInit == ConsumerDefaults /\ DispatchDefaults /\ OtherDefaults /\ AllInit

SupervisorInit == DispatchDefaults /\ OtherDefaults /\ AllInit

HandlingInit == ConsumerDefaults /\ OtherDefaults /\ AllInit

ReadyInputsInit == ConsumerDefaults /\ DispatchDefaults /\ IdentifyDefaults /\ AllInit

IdentifyInputsInit ==
    ConsumerDefaults /\ DispatchDefaults /\ ReadyStateDefaults /\ AllInit

SpecMessage == DefaultsInit /\ [][MessageNext]_vars

SpecNsqd == DefaultsInit /\ [][NsqdNext]_vars

SpecNsqdCounts == DefaultsInit /\ [][NsqdCountsNext]_vars

SpecProducer == DefaultsInit /\ [][ProducerNext]_vars

Spec == SupervisorInit /\ [][ConsumerNext]_vars

SpecDispatch == HandlingInit /\ [][DispatchNext]_vars

SpecBackoffTimer == DefaultsInit /\ [][BackoffTimerNext]_vars

SpecSession == DefaultsInit /\ [][SessionNext]_vars

SpecReadyState == ReadyInputsInit /\ [][ReadyStateNext]_vars

SpecIdentify == IdentifyInputsInit /\ [][IdentifyNext]_vars

(***************************************************************************)
(* Claims                                                                  *)
(***************************************************************************)

\* C1: in the state a run of _redistribute_ready_state leaves when it returns,
\* the ready_count of the sessions in the connection map add up to at most
\* max_in_flight.
C1_TotalRdyCeiling ==
    cons_last.op = "_redistribute_ready_state" => total_ready_count <= max_in_flight

\* A run has returned with two sessions in the map, one RUNNING and one
\* THROTTLED, and the whole of a max_in_flight of 3 given out.
C1_Witness ==
    /\ cons_last.op = "_redistribute_ready_state"
    /\ max_in_flight = 3
    /\ total_ready_count = 3
    /\ \E a, b \in Sessions : connections[a] = RUNNING /\ connections[b] = THROTTLED

\* No redistribution is requested and none is in progress: _poll_ready is
\* waiting and the event is clear.
RdySettled ==
    /\ rd_pc = "wait"
    /\ ~rd_event

\* C2, as the specification states it: in every state a session in BACKOFF has
\* ready_count 0.
C2_BackoffRdyZero ==
    \A a \in Sessions : connections[a] = BACKOFF => ready_count[a] = 0

\* C2, amended: a session in BACKOFF has ready_count 0 in every state in which
\* no redistribution is requested or in progress.
C2_BackoffRdyZeroSettled ==
    RdySettled => \A a \in Sessions : connections[a] = BACKOFF => ready_count[a] = 0

\* A redistribution has just returned, none is requested, and a connected
\* session that a failed message put in BACKOFF is down to RDY 0 at its broker.
C2_Witness ==
    /\ RdySettled
    /\ cons_last.op = "_redistribute_ready_state"
    /\ \E a \in Sessions :
          /\ connections[a] = BACKOFF
          /\ ready_count[a] = 0
          /\ broker_rdy[a] = 0
          /\ conn_state[a] = CONNECTED
          /\ message_backoffs[a] > 0

\* C3, as the specification states it: in every state a session in THROTTLED
\* has ready_count 0 or 1.
C3_ThrottledRdyAtMostOne ==
    \A a \in Sessions : connections[a] = THROTTLED => ready_count[a] <= 1

\* C3, amended: a session in THROTTLED has ready_count 0 or 1 in every state
\* in which no redistribution is requested or in progress.
C3_ThrottledRdySettled ==
    RdySettled => \A a \in Sessions : connections[a] = THROTTLED => ready_count[a] <= 1

\* A redistribution has just returned, none is requested, max_in_flight is
\* above 1 and a session in THROTTLED has RDY 1 at its broker.
C3_Witness ==
    /\ RdySettled
    /\ cons_last.op = "_redistribute_ready_state"
    /\ max_in_flight > 1
    /\ \E a \in Sessions :
          /\ connections[a] = THROTTLED
          /\ ready_count[a] = 1
          /\ broker_rdy[a] = 1
          /\ conn_state[a] = CONNECTED

\* C4: the in_flight counts of the sessions in the connection map never add up
\* to more than max_in_flight.
C4_InFlightCeiling ==
    total_in_flight <= max_in_flight

\* C5: on one message, touch before the terminal response is never refused as
\* already responded, reaches the session and leaves has_responded false; at
\* most one finish or requeue is let through and at most one returns normally;
\* every finish, requeue or touch after the terminal response is refused with
\* 'already responded' and emits nothing to the session.
C5_SingleResponse ==
    /\ msg_signals["finish"] + msg_signals["requeue"] <= 1
    /\ msg_returned["finish"] + msg_returned["requeue"] <= 1
    /\ msg_has_responded <=> (msg_signals["finish"] + msg_signals["requeue"] = 1)
    /\ (msg_last.op = "touch" /\ ~msg_last.pre) =>
          /\ msg_last.res # AlreadyResponded
          /\ msg_signals = [msg_last.signals EXCEPT !["touch"] = @ + 1]
          /\ ~msg_has_responded
    /\ (msg_last.op \in MsgOps /\ msg_last.pre) =>
          /\ msg_last.res = AlreadyResponded
          /\ msg_signals = msg_last.signals
          /\ msg_has_responded

\* Two touches went through, the terminal response was given, and a later
\* touch was refused.
C5_Witness ==
    /\ msg_signals["touch"] >= 2
    /\ msg_signals["finish"] + msg_signals["requeue"] = 1
    /\ msg_last.op = "touch"
    /\ msg_last.pre
    /\ msg_last.res = AlreadyResponded

\* Where promise i stands in the order of resolution.
C6_ResolvedAt(i) == CHOOSE k \in DOMAIN prod_resolved : prod_resolved[k] = i

\* C6: promises are numbered in the order publish / multipublish appended them;
\* of two promises appended for the same session, the later one is never
\* resolved unless the earlier one was resolved before it, whether by an OK,
\* by an ERROR frame or by the failure of the session.
C6_PublishFIFO ==
    \A i, j \in Promises :
        (/\ i < j
         /\ prod_owner[i] # NoSession
         /\ prod_owner[i] = prod_owner[j]
         /\ j \in Range(prod_resolved))
        => /\ i \in Range(prod_resolved)
           /\ C6_ResolvedAt(i) < C6_ResolvedAt(j)

\* Two promises were appended for one session and both were resolved by an OK.
C6_Witness ==
    /\ prod_owner[1] # NoSession
    /\ prod_owner[1] = prod_owner[2]
    /\ prod_status[1] = "OK"
    /\ prod_status[2] = "OK"
    /\ prod_resolved = <<1, 2>>

\* The promises pending on the sessions of address a.
C7_PendingOn(a) ==
    {i \in Promises : prod_owner[i][1] = a /\ prod_status[i] = "pending"}

\* C7: a step in which the reader of a session handles an ERROR frame leaves
\* every promise that was pending on the session failed with the error made
\* from that frame; a step in which the failure of a session is handled
\* (handle_connection_failure) leaves every promise that was pending on it
\* failed with 'connection closed'; in both, every other promise keeps the
\* status it had.
C7_FailPending ==
    [][ \A a \in ProdAddrs :
          /\ (prod_last'.op = "handle_error" /\ prod_last'.a = a) =>
                /\ \A i \in C7_PendingOn(a) :
                      prod_status'[i] = make_error(prod_last'.res).cls
                /\ \A i \in Promises \ C7_PendingOn(a) :
                      prod_status'[i] = prod_status[i]
          /\ (prod_last'.op = "handle_connection_failure" /\ prod_last'.a = a) =>
                /\ \A i \in C7_PendingOn(a) : prod_status'[i] = ConnectionClosed
                /\ \A i \in Promises \ C7_PendingOn(a) :
                      prod_status'[i] = prod_status[i]
      ]_vars

\* An ERROR frame was handled on a session with a pending promise while a
\* promise was pending on a session of another address: the first is failed
\* with the error, the second is still pending.
C7_Witness ==
    /\ prod_last.op = "handle_error"
    /\ \E i, j \in Promises :
          /\ prod_owner[i][1] = prod_last.a
          /\ prod_status[i] = make_error(prod_last.res).cls
          /\ prod_owner[j] # NoSession
          /\ prod_owner[j][1] # prod_last.a
          /\ prod_status[j] = "pending"

C9_ConnectMonotone ==
    [][ /\ nsqd_state' # nsqd_state =>
              <<nsqd_state, nsqd_state'>> \in
                  {<<INIT, CONNECTED>>, <<CONNECTED, DISCONNECTED>>}
        /\ Cardinality({i \in DOMAIN nsqd_sent' : nsqd_sent'[i] = "MAGIC"}) <= 1
        /\ (nsqd_last'.op = "connect" /\ nsqd_state = CONNECTED) =>
              /\ nsqd_last'.res = "ok"
              /\ UNCHANGED <<nsqd_state, nsqd_pc, nsqd_sent, nsqd_in_flight>>
        /\ (nsqd_last'.op = "connect" /\ nsqd_state = DISCONNECTED) =>
              /\ nsqd_last'.res = "NSQException(connection already closed)"
              /\ UNCHANGED <<nsqd_state, nsqd_pc, nsqd_sent, nsqd_in_flight>>
      ]_vars

\* The session was connected, wrote the magic, was closed, and connect() was
\* then called on it.
C9_Witness ==
    /\ nsqd_last.op = "connect"
    /\ nsqd_last.pre = DISCONNECTED
    /\ nsqd_state = DISCONNECTED
    /\ nsqd_sent = <<"MAGIC">>

\* The error codes the claim C10 lists, with the class tests/test_nsqd.py
\* (test_error) expects for each.
C10_FatalCodes ==
    {"E_INVALID", "E_BAD_BODY", "E_BAD_TOPIC", "E_BAD_CHANNEL", "E_BAD_MESSAGE",
     "E_PUT_FAILED", "E_PUB_FAILED", "E_MPUB_FAILED", "E_AUTH_DISABLED",
     "E_AUTH_FAILED", "E_UNAUTHORIZED", UnknownErrorCode}

C10_NonFatalCodes == {"E_FIN_FAILED", "E_REQ_FAILED", "E_TOUCH_FAILED"}

C10_ExpectedClass ==
    [c \in C10_FatalCodes \cup C10_NonFatalCodes |->
        CASE c = "E_INVALID"       -> "NSQInvalid"
          [] c = "E_BAD_BODY"      -> "NSQBadBody"
          [] c = "E_BAD_TOPIC"     -> "NSQBadTopic"
          [] c = "E_BAD_CHANNEL"   -> "NSQBadChannel"
          [] c = "E_BAD_MESSAGE"   -> "NSQBadMessage"
          [] c = "E_PUT_FAILED"    -> "NSQPutFailed"
          [] c = "E_PUB_FAILED"    -> "NSQPubFailed"
          [] c = "E_MPUB_FAILED"   -> "NSQMPubFailed"
          [] c = "E_AUTH_DISABLED" -> "NSQAuthDisabled"
          [] c = "E_AUTH_FAILED"   -> "NSQAuthFailed"
          [] c = "E_UNAUTHORIZED"  -> "NSQUnauthorized"
          [] c = "E_FIN_FAILED"    -> "NSQFinishFailed"
          [] c = "E_REQ_FAILED"    -> "NSQRequeueFailed"
          [] c = "E_TOUCH_FAILED"  -> "NSQTouchFailed"
          [] OTHER                 -> "NSQErrorCode"]

\* C10: after read_response() has read an ERROR frame on a connected session,
\* on_error has been raised with the error translated from the frame; for the
\* eleven fatal codes and for an unknown code the session is DISCONNECTED, for
\* E_FIN_FAILED, E_REQ_FAILED and E_TOUCH_FAILED it is still CONNECTED.
C10_ErrorFrame ==
    \A code \in C10_FatalCodes \cup C10_NonFatalCodes :
        (/\ nsqd_last.op = "read_response"
         /\ nsqd_last.signal.name = "on_error"
         /\ nsqd_last.signal.frame = code) =>
            /\ nsqd_last.pre = CONNECTED
            /\ nsqd_last.res = "ok"
            /\ nsqd_last.signal.error.code = code
            /\ nsqd_last.signal.error.cls = C10_ExpectedClass[code]
            /\ code \in C10_FatalCodes => nsqd_state = DISCONNECTED
            /\ code \in C10_NonFatalCodes => nsqd_state = CONNECTED

\* E_FIN_FAILED was read and the session is still connected.
C10_Witness ==
    /\ nsqd_last.op = "read_response"
    /\ nsqd_last.signal.name = "on_error"
    /\ nsqd_last.signal.frame = "E_FIN_FAILED"
    /\ nsqd_last.signal.error.cls = "NSQFinishFailed"
    /\ nsqd_state = CONNECTED

\* C11 as stated: after read_response() has read a frame on a connected
\* session, exactly one NOP has been written and on_response raised with the
\* payload if the frame is the RESPONSE "_heartbeat_", and nothing has been
\* written if it is any other frame.
C11_HeartbeatAnswered ==
    (nsqd_last.op = "read_response" /\ nsqd_last.pre = CONNECTED) =>
        IF nsqd_last.frame = [type |-> "RESPONSE", data |-> "_heartbeat_"]
        THEN /\ nsqd_sent = Append(nsqd_last.sent, "NOP")
             /\ nsqd_last.signal = [name |-> "on_response", data |-> "_heartbeat_"]
        ELSE nsqd_sent = nsqd_last.sent

\* C11: after read_response() has read the RESPONSE "_heartbeat_" on a
\* connected session, either exactly one NOP has been written and on_response
\* raised with the payload, or the write failed, nothing was written, the
\* read raised NSQSocketError without raising on_response and the session is
\* DISCONNECTED, so that no frame is read after it; after any other frame
\* nothing has been written.
C11_HeartbeatAnsweredOrClosed ==
    (nsqd_last.op = "read_response" /\ nsqd_last.pre = CONNECTED) =>
        IF nsqd_last.frame = [type |-> "RESPONSE", data |-> "_heartbeat_"]
        THEN \/ /\ nsqd_last.res = "ok"
                /\ nsqd_sent = Append(nsqd_last.sent, "NOP")
                /\ nsqd_last.signal = [name |-> "on_response", data |-> "_heartbeat_"]
                /\ nsqd_state = CONNECTED
             \/ /\ nsqd_last.res = "NSQSocketError"
                /\ nsqd_sent = nsqd_last.sent
                /\ nsqd_last.signal = [name |-> "on_close"]
                /\ nsqd_state = DISCONNECTED
        ELSE nsqd_sent = nsqd_last.sent

\* A heartbeat was read after the magic and a first heartbeat had been
\* written and answered: the second NOP is on the stream.
C11_Witness ==
    /\ nsqd_last.op = "read_response"
    /\ nsqd_last.frame = [type |-> "RESPONSE", data |-> "_heartbeat_"]
    /\ nsqd_last.res = "ok"
    /\ nsqd_last.sent = <<"MAGIC", "NOP">>
    /\ nsqd_sent = <<"MAGIC", "NOP", "NOP">>

\* C12: once handle_message has dealt with the arrival of a message with
\* max_tries > 0 and attempts > max_tries, on_giving_up has been emitted once,
\* the handler has not been invoked and the consumer has called finish() on the
\* message, its one response; for any other message on_giving_up has not been
\* emitted and the handler has been invoked once.
C12_GivingUp ==
    hm_pc # "received" =>
        IF hm_max_tries > 0 /\ hm_attempts > hm_max_tries
        THEN /\ hm_emitted.on_giving_up = 1
             /\ hm_emitted.on_message = 0
             /\ hm_pc = "returned"
             /\ hm_responded
             /\ Len(hm_sup) = 1
             /\ hm_sup[1].cmd = "FIN"
             /\ hm_sup[1].ok => hm_wire = <<Command("FIN", 0, FALSE, "consumer")>>
        ELSE /\ hm_emitted.on_giving_up = 0
             /\ hm_emitted.on_message = 1

\* A message on its third attempt with max_tries = 2 was given up and FIN
\* written for it.
C12_Witness ==
    /\ hm_max_tries = 2
    /\ hm_attempts = 3
    /\ hm_pc = "returned"
    /\ hm_emitted.on_giving_up = 1
    /\ hm_emitted.on_message = 0
    /\ hm_wire = <<Command("FIN", 0, FALSE, "consumer")>>

\* C13: when the handler has returned normally with the consumer running, the
\* consumer has called finish() exactly if the message was neither marked
\* async nor responded to at that point, and has made no call otherwise; the
\* consumer makes at most one call per message, never on a message somebody
\* else responded to, and at most one FIN or REQ is written for a message.
C13_AutoFinish ==
    /\ (hm_end.how = "return" /\ hm_end.running) =>
          IF ~hm_end.async /\ ~hm_end.responded
          THEN /\ Len(hm_sup) = 1
               /\ hm_sup[1].cmd = "FIN"
          ELSE hm_sup = <<>>
    /\ Len(hm_sup) <= 1
    /\ Len(hm_wire) <= 1
    /\ hm_sup # <<>> => \A i \in DOMAIN hm_wire : hm_wire[i].by = "consumer"

\* The handler returned without touching the message and the consumer wrote
\* FIN for it.
C13_Witness ==
    /\ hm_end.how = "return"
    /\ hm_end.running
    /\ ~hm_end.async
    /\ ~hm_end.responded
    /\ hm_emitted.on_message = 1
    /\ hm_wire = <<Command("FIN", 0, FALSE, "consumer")>>

\* What C14 requires after the handler raised, given `pre` at that point.
C14_Requeued(pre) ==
    /\ hm_end.how = "raise" => hm_pc = "returned"
    /\ (hm_end.how = "raise" /\ hm_end.cls # "NSQRequeueMessage") =>
          hm_emitted.on_exception = 1
    /\ (hm_end.how = "raise" /\ pre) =>
          /\ Len(hm_sup) = 1
          /\ hm_sup[1].cmd = "REQ"
          /\ hm_sup[1].delay = hm_requeue_delay
          /\ hm_sup[1].backoff =
                IF hm_end.cls # "NSQRequeueMessage" THEN TRUE
                ELSE IF hm_end.hint = "None" THEN hm_backoff_on_requeue
                ELSE hm_end.hint = "True"

\* C14 as stated, for a consumer that is running when the handler raises:
\* the message is requeued with requeue_delay and the backoff flag of the
\* signal's hint, of backoff_on_requeue without a hint, or TRUE after any other
\* exception, which is reported by on_exception, and nothing is raised into
\* the reader.
C14_RequeueOnRaise ==
    C14_Requeued(hm_end.running)

\* C14: the same, for a consumer that is running and a message that has not
\* been responded to when the handler raises.
C14_RequeueOnRaiseUnresponded ==
    C14_Requeued(hm_end.running /\ ~hm_end.responded)

\* The handler raised NSQRequeueMessage(backoff=False) under a consumer whose
\* backoff_on_requeue is True, and REQ went out with the delay configured.
C14_Witness ==
    /\ hm_end.how = "raise"
    /\ hm_end.cls = "NSQRequeueMessage"
    /\ hm_end.hint = "False"
    /\ hm_end.running
    /\ hm_backoff_on_requeue
    /\ hm_requeue_delay = 1
    /\ hm_wire = <<Command("REQ", 1, FALSE, "consumer")>>

\* C15: when the consumer was closed by the time the handler returned or
\* raised, the consumer has made no finish() or requeue() call for the message.
C15_ClosedNoResponse ==
    (hm_end.how \in {"return", "raise"} /\ ~hm_end.running) =>
        /\ hm_sup = <<>>
        /\ \A i \in DOMAIN hm_wire : hm_wire[i].by # "consumer"

\* The consumer was closed while the handler ran, the handler raised without
\* having responded, and nothing was written for the message.
C15_Witness ==
    /\ hm_end.how = "raise"
    /\ ~hm_end.running
    /\ ~hm_end.responded
    /\ hm_pc = "returned"
    /\ hm_sup = <<>>
    /\ hm_wire = <<>>

\* C16: a close() on a running consumer leaves it CLOSED with no session of
\* the map connected and on_close sent once more; a close() on a consumer that
\* is not running changes nothing; on_close is never sent twice.
C16_CloseOnce ==
    [][ /\ on_close_sent' <= 1
        /\ cons_last'.op = "close" =>
              IF cons_state = RUNNING
              THEN /\ cons_last'.running
                   /\ cons_state' = CLOSED
                   /\ \A a \in Addrs : connections'[a] # ABSENT => conn_state'[a] # CONNECTED
                   /\ on_close_sent' = on_close_sent + 1
              ELSE /\ ~cons_last'.running
                   /\ UNCHANGED consState
      ]_vars

\* close() was called on a consumer that an earlier close() had closed, with a
\* session in the map whose stream that close() closed.
C16_Witness ==
    /\ cons_last = CloseEvent(FALSE)
    /\ cons_state = CLOSED
    /\ on_close_sent = 1
    /\ \E a \in Sessions : conn_state[a] = DISCONNECTED /\ conn_phase[a] = "listening"

\* C17 as far as a finite run shows it: in a closed consumer neither poller
\* is alive.  The pollers loop until they are killed, and close() has killed
\* what there was to kill, so a poller alive in a closed consumer never ends.
C17_PollersEndOnClose ==
    cons_state = CLOSED =>
        /\ rd_pc \notin {"wait", "sending"}
        /\ lookupd_pc # "sleep"

\* C18: a start() outside INIT, and a start() in INIT that raises RuntimeError
\* for want of a receiver, change nothing: no session, no task, the state as
\* it was; the state leaves INIT only by a start() with a receiver, for RUNNING.
C18_StartOnlyFromInit ==
    [][ /\ cons_last'.op = "start" =>
              /\ cons_state # INIT =>
                    /\ cons_last'.res = "already started"
                    /\ UNCHANGED consState
              /\ cons_last'.res = "RuntimeError" =>
                    /\ cons_state = INIT
                    /\ UNCHANGED consState
              /\ cons_last'.res = "ok" =>
                    /\ cons_state = INIT
                    /\ cons_state' = RUNNING
        /\ cons_state = INIT /\ cons_state' # INIT =>
              cons_last' = StartEvent("ok") /\ cons_state' = RUNNING
      ]_vars

\* start() was called on a closed consumer that still has a session in its map.
C18_Witness ==
    /\ cons_last = StartEvent("already started")
    /\ cons_state = CLOSED
    /\ Sessions # {}

\* C19: with max_backoff_duration = 0 no session is in BACKOFF or THROTTLED
\* and no _start_throttled timer is pending.
C19_NoBackoffWhenDisabled ==
    max_backoff_duration = 0 =>
        \A a \in Addrs :
            /\ connections[a] \notin {BACKOFF, THROTTLED}
            /\ throttle_timers[a] = 0

\* With max_backoff_duration = 0 a message was requeued with backoff on a
\* session that goes on listening.
C19_Witness ==
    /\ max_backoff_duration = 0
    /\ cons_last.op = "handle_requeue"
    /\ cons_last.running
    /\ connections[cons_last.a] = INIT
    /\ conn_phase[cons_last.a] = "listening"

\* C20 as stated: no DPUB command with a negative delay is ever written to
\* the session.
C20_NoNegativeDefer ==
    \A i \in DOMAIN nsqd_sent :
        \A d \in 1..MaxDefer : nsqd_sent[i] # deferpublish(0 - d)

\* The counter C21 describes for a sequence of calls: from 0, one more per
\* failure, one less per success but not below 0, and 0 after a reset.
RECURSIVE C21_Expected(_)
C21_Expected(calls) ==
    IF calls = <<>> THEN 0
    ELSE LET before == C21_Expected(SubSeq(calls, 1, Len(calls) - 1))
             op     == calls[Len(calls)]
         IN  CASE op = "failure" -> before + 1
               [] op = "success" -> IF before = 0 THEN 0 ELSE before - 1
               [] op = "reset"   -> 0

\* C21: after any sequence of failure(), success() and reset() calls the
\* counter of a BackoffTimer is the one that sequence describes, it is not
\* negative, and is_reset() holds exactly when it is 0.
C21_CounterReplay ==
    /\ bt_c = C21_Expected(bt_calls)
    /\ bt_c >= 0
    /\ BackoffTimer_is_reset(bt_c) <=> (C21_Expected(bt_calls) = 0)

\* Two failures were followed by three successes, the last of them on a
\* counter that was already 0.
C21_Witness ==
    /\ bt_calls = <<"failure", "failure", "success", "success", "success">>
    /\ bt_c = 0

\* The session under address a is the same object before and after the step:
\* the key is in the map on both sides and no new session was put under it.
C22_SameSession(a) ==
    /\ connections[a] # ABSENT
    /\ connections'[a] # ABSENT
    /\ ~(conn_phase'[a] = "connecting" /\ conn_phase[a] # "connecting")

\* The changes of state of the sessions that stay in the map are all in T.
C22_ChangesWithin(T) ==
    max_backoff_duration > 0 =>
        \A a \in Addrs :
            (C22_SameSession(a) /\ connections'[a] # connections[a]) =>
                <<connections[a], connections'[a]>> \in T

\* C22 as stated: with max_backoff_duration > 0 the state of a session in the
\* map changes only from INIT to RUNNING, from RUNNING to BACKOFF, from BACKOFF
\* to THROTTLED and from THROTTLED to BACKOFF or RUNNING.
C22_FiveTransitions ==
    [][C22_ChangesWithin({<<INIT, RUNNING>>, <<RUNNING, BACKOFF>>,
                          <<BACKOFF, THROTTLED>>, <<THROTTLED, BACKOFF>>,
                          <<THROTTLED, RUNNING>>})]_vars

\* C22: the same, with the change from INIT to BACKOFF that a failure on a
\* session without a successful response makes.
C22_SixTransitions ==
    [][C22_ChangesWithin({<<INIT, RUNNING>>, <<INIT, BACKOFF>>, <<RUNNING, BACKOFF>>,
                          <<BACKOFF, THROTTLED>>, <<THROTTLED, BACKOFF>>,
                          <<THROTTLED, RUNNING>>})]_vars

\* The one message delivered so far was requeued with backoff, which took its
\* session, still in the map, from INIT to BACKOFF.
C22_Witness ==
    /\ max_backoff_duration > 0
    /\ msgs_delivered = 1
    /\ cons_last.op = "handle_requeue"
    /\ connections[cons_last.a] = BACKOFF
    /\ message_backoffs[cons_last.a] = 1
    /\ conn_phase[cons_last.a] = "listening"

\* C23: when _finish_message has run for a THROTTLED session, a success has
\* taken one off the message-backoff counter and left the session RUNNING if
\* the counter is then 0 and in BACKOFF if it is still above 0, and a failure
\* has added one to the counter and left the session in BACKOFF.
C23_ProbeOutcome ==
    (ss_last.op = "_finish_message" /\ ss_last.pre = THROTTLED) =>
        IF ss_last.backoff
        THEN /\ ss_message_backoff = ss_last.c + 1
             /\ ss_conn = BACKOFF
        ELSE /\ ss_message_backoff = ss_last.c - 1
             /\ ss_message_backoff >= 0
             /\ (ss_message_backoff = 0) => ss_conn = RUNNING
             /\ (ss_message_backoff > 0) => ss_conn = BACKOFF

\* A probe succeeded on a session that two failures had put at counter 2: the
\* counter is 1 and the session is in BACKOFF for another round, its timer set.
C23_Witness ==
    /\ ss_last = [op |-> "_finish_message", pre |-> THROTTLED, c |-> 2,
                  backoff |-> FALSE]
    /\ ss_message_backoff = 1
    /\ ss_conn = BACKOFF
    /\ Cardinality(ss_throttles) = 1

\* C29 as stated: when handle_connection_success has run for a session of a
\* configured address, the connection-backoff counter of the address is 0.
C29_ConnectionBackoffReset ==
    ss_last.op = "handle_connection_success" => ss_connection_backoff = 0

\* C24: in the saturated regime the targets are 0 for every BACKOFF session,
\* 1 for every INIT session, 1 for every THROTTLED session and 1 for every
\* RUNNING session idle beyond low_ready_idle_timeout; the other RUNNING
\* sessions get targets that differ by at most 1, and when there is at least
\* one of them all targets sum to max_in_flight.
C24_Sharing == {a \in ReadySessions : rs_connections[a] = RUNNING /\ a \notin rs_late}

C24_SaturatedTargets ==
    rs_regime = "saturated" =>
        /\ \A a \in ReadySessions :
            /\ rs_connections[a] = BACKOFF => rs_ready_state[a] = 0
            /\ rs_connections[a] = INIT => rs_ready_state[a] = 1
            /\ rs_connections[a] = THROTTLED => rs_ready_state[a] = 1
            /\ (rs_connections[a] = RUNNING /\ a \in rs_late) => rs_ready_state[a] = 1
        /\ \A a, b \in C24_Sharing : rs_ready_state[a] - rs_ready_state[b] <= 1
        /\ C24_Sharing # {} => SumOver(rs_ready_state, ReadySessions) = rs_max_in_flight

\* A saturated computation over a BACKOFF session and two sharing sessions
\* whose targets differ.
C24_Witness ==
    /\ rs_regime = "saturated"
    /\ \E a \in ReadySessions : rs_connections[a] = BACKOFF
    /\ \E a, b \in C24_Sharing : rs_ready_state[a] = rs_ready_state[b] + 1

\* C25: in the oversubscribed regime every BACKOFF session gets target 0,
\* exactly min(max_in_flight, number of non-BACKOFF sessions) of the others
\* get target 1, and every other session gets target 0.
C25_NotBackoff == {a \in ReadySessions : rs_connections[a] # BACKOFF}

C25_OversubscribedTargets ==
    rs_regime = "unsaturated" =>
        /\ \A a \in ReadySessions : rs_ready_state[a] \in {0, 1}
        /\ \A a \in ReadySessions \ C25_NotBackoff : rs_ready_state[a] = 0
        /\ Cardinality({a \in C25_NotBackoff : rs_ready_state[a] = 1})
             = Min(rs_max_in_flight, Cardinality(C25_NotBackoff))

\* An oversubscribed computation over a BACKOFF session and two others, one
\* given 1 and one given 0.
C25_Witness ==
    /\ rs_regime = "unsaturated"
    /\ \E a \in ReadySessions : rs_connections[a] = BACKOFF
    /\ \E a, b \in C25_NotBackoff : rs_ready_state[a] = 1 /\ rs_ready_state[b] = 0

\* C26: in the oversubscribed regime a session that has received no message
\* for longer than low_ready_idle_timeout gets target 0.
C26_IdleGivesUpSlot ==
    rs_regime = "unsaturated" =>
        \A a \in ReadySessions :
            (rs_connections[a] = RUNNING /\ a \in rs_late) => rs_ready_state[a] = 0

\* C30: a THROTTLED session gets target 1 from the redistribution, in the
\* saturated and in the oversubscribed regime alike.
C30_ThrottledGetsOne ==
    rs_regime # "none" =>
        \A a \in ReadySessions :
            rs_connections[a] = THROTTLED => rs_ready_state[a] = 1

\* Both addresses have a session in the map that is connected and listening,
\* and max_in_flight is 1.
C27_TwoConnected ==
    /\ max_in_flight = 1
    /\ \A a \in Addrs :
          /\ a \in Sessions
          /\ conn_phase[a] = "listening"
          /\ conn_state[a] = CONNECTED

C27_OneHasRdy ==
    \E a \in Addrs :
        /\ ready_count[a] = 1
        /\ \A b \in Addrs \ {a} : ready_count[b] = 0

\* C27, as the specification states it: with two connected sessions and
\* max_in_flight = 1, in every state exactly one session has RDY 1 and the
\* other RDY 0.
C27_ExactlyOneAlways ==
    C27_TwoConnected => C27_OneHasRdy

\* C27, amended: with two connected sessions that are not both in BACKOFF and
\* max_in_flight = 1, exactly one session has RDY 1 and the other RDY 0 in
\* every state in which no redistribution is requested or in progress.
C27_ExactlyOneSettled ==
    ( /\ C27_TwoConnected
      /\ RdySettled
      /\ \E a \in Addrs : connections[a] # BACKOFF ) => C27_OneHasRdy

\* A redistribution has returned over two connected sessions with
\* max_in_flight = 1, and the broker of one has RDY 1, the other RDY 0.
C27_Witness ==
    /\ C27_TwoConnected
    /\ RdySettled
    /\ cons_last.op = "_redistribute_ready_state"
    /\ \E a, b \in Addrs : /\ broker_rdy[a] = 1 /\ ready_count[a] = 1
                           /\ broker_rdy[b] = 0 /\ ready_count[b] = 0

\* C28: a ready(n) that fails on a session during a redistribution does not
\* end the redistribution task: _poll_ready is never ended by an exception.
C28_ReadyFailureNotFatal ==
    rd_pc # "dead"

C31_IsStep(x) == x \in {"tls", "snappy", "deflate", "AUTH"}

C31_IsLayer(x) == x \in {"tls", "snappy", "deflate"}

\* The upgrades and the AUTH the call has made so far, in order.
C31_Steps == SelectSeq(id_log, C31_IsStep)

\* The steps a JSON answer calls for: TLS if both sides enable it, then Snappy
\* if both sides enable it, else DEFLATE if both sides enable it, then AUTH if
\* it is required and a secret is configured.
C31_Expected ==
    LET d == id_data.data IN
    (IF id_cfg.tls_v1 /\ d.tls_v1 THEN <<"tls">> ELSE <<>>)
    \o (IF id_cfg.snappy /\ d.snappy THEN <<"snappy">>
        ELSE IF id_cfg.deflate /\ d.deflate THEN <<"deflate">> ELSE <<>>)
    \o (IF id_cfg.auth_secret /\ d.auth_required THEN <<"AUTH">> ELSE <<>>)

\* C31: after the answer 'OK' identify() makes no upgrade and sends no AUTH;
\* otherwise it makes the TLS upgrade, then the Snappy upgrade or else the
\* DEFLATE upgrade, each only if both sides enable it, and sends AUTH last,
\* only if it is required and a secret is configured; every upgrade is
\* followed by the read of one frame, and nothing follows a frame that is
\* not 'OK'; a call that returns has made all of these steps.
C31_IdentifyOrder ==
    /\ id_data.kind = "OK" => (C31_Steps = <<>> /\ id_pc = "returned")
    /\ Len(C31_Steps) <= Len(C31_Expected)
    /\ C31_Steps = SubSeq(C31_Expected, 1, Len(C31_Steps))
    /\ (id_pc = "returned" /\ id_data.kind = "JSON") => C31_Steps = C31_Expected
    /\ id_layers = SelectSeq(C31_Steps, C31_IsLayer)
    /\ \A i \in 1..Len(id_log) :
          C31_IsLayer(id_log[i]) =>
              /\ i < Len(id_log)
              /\ id_log[i + 1] \in CheckFrames
              /\ (i + 1 < Len(id_log) \/ id_pc # "raised") => id_log[i + 1] = "OK"

\* A call has returned after the TLS upgrade, the Snappy upgrade and AUTH,
\* with DEFLATE enabled on both sides as well.
C31_Witness ==
    /\ id_pc = "returned"
    /\ id_cfg.deflate /\ id_data.data.deflate
    /\ id_layers = <<"tls", "snappy">>
    /\ C31_Steps = <<"tls", "snappy", "AUTH">>

\* C32: the map holds one session per address, and a connect request for an
\* address that has a session in the map builds no second one: every session
\* built in a step is stored under an address the map did not hold.
C32_NoSecondSession ==
    [][conns_built' - conns_built =
         Cardinality({a \in Addrs : connections[a] = ABSENT /\ connections'[a] # ABSENT})]_vars

\* A reconnection timer or the lookupd poller has asked for an address whose
\* session was in the map and is still connecting.
C32_Witness ==
    /\ cons_last.op = "connect_to_nsqd"
    /\ cons_last.found
    /\ cons_last.running
    /\ conn_phase[cons_last.a] = "connecting"

\* C33: in every state of a session 0 <= in_flight and 0 <= ready_count.
C33_CountsNotNegative ==
    /\ 0 <= nsqd_in_flight
    /\ 0 <= nsqd_ready_count

\* C34: the promises in a session's response queue are, one for one, the
\* commands written to the session and not yet answered; a publish that
\* fails before its command is written leaves no promise.  Stated for a
\* connected session with a response queue on which no publish is under way.
C34_PromisePerCommand ==
    \A a \in prod_hasq :
        ( /\ prod_phase[a] = "listening"
          /\ prod_cstate[a] = CONNECTED
          /\ \A p \in Publishers : prod_pub[p].pc = "idle" \/ prod_pub[p].conn[1] # a )
        => Len(prod_queues[a]) = prod_wire[a]

\* C35: RDY is written to a session only after SUB: ready() is never called
\* on a session of the map that is still in connect(), identify() or
\* subscribe(), so such a session has the ready_count 0 it was built with and
\* is not the one a redistribution is sending to.
C35_RdyAfterSub ==
    \A a \in Sessions :
        conn_phase[a] \in {"connecting", "handshake"} =>
            /\ ready_count[a] = 0
            /\ rd_cur # a

\* C36: whenever the session of an address is RUNNING, the message backoff
\* counter of the address is 0.
C36_RunningCounterZero ==
    ss_conn = RUNNING => ss_message_backoff = 0

\* C37: after close() every session the producer had connected is
\* DISCONNECTED, the one a publish call held outside the pool included: once
\* the producer is closed, every publish call has returned and no
\* connect_to_nsqd is under way, no session is CONNECTED.
C37_ClosedMeansDisconnected ==
    ( /\ prod_state = CLOSED
      /\ \A p \in Publishers : prod_pub[p].pc = "idle"
      /\ \A a \in ProdAddrs : prod_phase[a] # "connecting" )
    => \A a \in ProdAddrs : prod_cstate[a] # CONNECTED

\* C38: a session in BACKOFF becomes THROTTLED only through the timer set
\* when it entered its current backoff episode: a run of _start_throttled
\* that finds BACKOFF and sets THROTTLED is the timer of the latest episode.
C38_OnlyOwnTimer ==
    (ss_last.op = "_start_throttled" /\ ss_last.pre = BACKOFF) =>
        ss_last.episode = ss_episode

\* C39: no target the redistribution hands to ready() is larger than the
\* max_rdy_count the session negotiated in its IDENTIFY response.
C39_WithinNegotiated ==
    rs_regime # "none" =>
        \A a \in ReadySessions : rs_ready_state[a] <= rs_max_ready_count[a]

\* The step is a successful finish of a message of the session of address a:
\* Consumer_respond with backoff FALSE.
C40_SuccessfulFinish(a) ==
    /\ connections[a] # ABSENT
    /\ connections'[a] # ABSENT
    /\ in_flight'[a] = in_flight[a] - 1
    /\ cons_last' = NoConsEvent

\* After it every session has had a successful finish and none is failing:
\* the others are RUNNING, which a session only becomes through a successful
\* finish, and a is neither BACKOFF nor THROTTLED.
C40_AllSucceeded(a) ==
    /\ cons_state' = RUNNING
    /\ ~IsUnsaturated(Cardinality(Sessions'), max_in_flight')
    /\ connections'[a] \notin {BACKOFF, THROTTLED}
    /\ \A b \in Sessions' \ {a} : connections'[b] = RUNNING

\* C40: in the saturated regime, whatever max_backoff_duration is, after a
\* successful finish that leaves every session with a successful finish behind
\* it and none failing, the targets a redistribution computes with no session
\* idle sum to max_in_flight.
C40_BudgetDivided ==
    [][\A a \in Addrs :
          (C40_SuccessfulFinish(a) /\ C40_AllSucceeded(a)) =>
              \A rs \in get_saturated_ready_state(Addrs, connections', max_in_flight', {}) :
                  SumOver(rs, Addrs) = max_in_flight']_vars

\* The same with backoff enabled.
C40_BudgetDividedEnabled ==
    [][\A a \in Addrs :
          (max_backoff_duration > 0 /\ C40_SuccessfulFinish(a) /\ C40_AllSucceeded(a)) =>
              \A rs \in get_saturated_ready_state(Addrs, connections', max_in_flight', {}) :
                  SumOver(rs, Addrs) = max_in_flight']_vars

====
